---- MODULE Spec2Model ----
(***************************************************************************)
(* Model of the foragerr watchlist engine: the file-lock gate and the job  *)
(* wrappers of watchlist-scheduler.py, and the search admission of         *)
(* main.py / scheduled_upgrader.py.                                        *)
(***************************************************************************)
EXTENDS Integers, Sequences, FiniteSets, TLC

\* ------------------------------------------------------------------ bounds
\* Number of operating-system processes running the scheduler script.
NumProcs == 2
Procs == 1..NumProcs
\* job_name of job_watchlist and of job_upgrade.
Jobs == {"watchlist_sync", "upgrade_job"}
\* Inodes a lock path can name over time: one per open description, plus one.
Inodes == 1..(NumProcs + 1)

VARIABLES
    pc,          \* pc[p]: where process p stands in its job function
    cur,         \* cur[p]: job_name of p's current (or last) invocation
    ofd,         \* ofd[p][j]: inode of p's open lock file of job j, 0 = none
    active,      \* active[p][j]: j is a key of p's _active_locks
    lockRet,     \* lockRet[p]: what with_job_lock returned to p last
    jobRet,      \* jobRet[p]: what the job function returned to its caller
    outcome,     \* outcome[p][j]: how p's last run of job j's body ended
    shutdown,    \* shutdown[p]: _shutdown_requested
    worked,      \* worked[p]: the body of p's current invocation has made a
                 \* service call or written the counter file or the cache
    path,        \* path[j]: inode named by locks/<j>.lock, 0 = no such file
    holder,      \* holder[j][i]: process whose description holds flock on i
    gate         \* the driver of the lock-gate scenario (GateSpec only)

lockVars == <<pc, cur, ofd, active, lockRet, jobRet, outcome, shutdown, worked,
              path, holder>>

\* ------------------------------------------------------- file-system helpers
\* Inodes of job j that neither the path nor any open description refers to.
FreeInodes(j) ==
    {i \in Inodes : path[j] # i /\ \A p \in Procs : ofd[p][j] # i}

\* os creates a new file: the lowest unused inode stands for "a fresh one".
NewInode(j) ==
    CHOOSE i \in FreeInodes(j) : \A k \in FreeInodes(j) : i <= k

\* A mutant of OpenInode: every open replaces the lock file by a new one.
OpenInodeFresh(j) ==
    NewInode(j)

\* open(lock_file, 'w'): the existing file if there is one, else a new file.
OpenInode(j) ==
    IF path[j] # 0 THEN path[j] ELSE NewInode(j)

\* fcntl.flock(fd, LOCK_EX | LOCK_NB) succeeds iff no description holds i.
FlockFree(j, i) ==
    holder[j][i] = 0

\* Closing (or unlocking) p's description of job j drops the flock it holds.
Unlocked(p, j) ==
    [holder EXCEPT ![j] = [i \in Inodes |->
        IF holder[j][i] = p /\ ofd[p][j] = i THEN 0 ELSE holder[j][i]]]

\* ------------------------------------------------------------ job wrappers
\* A mutant of JobEntry: the body runs whether or not the lock was acquired.
JobEntryNoCheck(ok) ==
    "run"

\* job_watchlist / job_upgrade: "if not with_job_lock(job_name): return False".
JobEntry(ok) ==
    IF ok THEN "run" ELSE "idle"

\* The finally clause: release_job_lock runs however the body ended; its
\* first test is "if func_name in _active_locks".
BodyEnd(p, ending) ==
    IF active[p][cur[p]] THEN "rel_unlock" ELSE "rel_remove"

\* A body ends by "return", by an exception of class "Exception", or by
\* "SystemExit" (a module it imports calls sys.exit(1)).  return True after
\* the body, return False in "except Exception"; what is not an Exception
\* passes the except clause and is raised to the caller.
JobResult(ending) ==
    CASE ending = "return" -> "true"
      [] ending = "Exception" -> "false"
      [] ending = "SystemExit" -> "raised"

\* Where the process stands once the finally clause is done: back in its
\* scheduler loop, or terminated by the SystemExit that nothing catches
\* (the loop, too, catches Exception only).
JobReturn(p) ==
    IF jobRet[p] = "raised" THEN "exited" ELSE "idle"

\* --------------------------------------------------------------------- Init
LockInit ==
    /\ pc = [p \in Procs |-> "idle"]
    /\ cur = [p \in Procs |-> "none"]
    /\ ofd = [p \in Procs |-> [j \in Jobs |-> 0]]
    /\ active = [p \in Procs |-> [j \in Jobs |-> FALSE]]
    /\ lockRet = [p \in Procs |-> "none"]
    /\ jobRet = [p \in Procs |-> "none"]
    /\ outcome = [p \in Procs |-> [j \in Jobs |-> "none"]]
    /\ shutdown = [p \in Procs |-> FALSE]
    /\ worked = [p \in Procs |-> FALSE]
    /\ path = [j \in Jobs |-> 0]
    /\ holder = [j \in Jobs |-> [i \in Inodes |-> 0]]

\* ------------------------------------------------------------ with_job_lock
\* The scheduler starts job j in p; with_job_lock opens the lock file.
Open(p, j) ==
    /\ pc[p] = "idle"
    /\ ~shutdown[p]
    /\ LET ino == OpenInode(j) IN
        /\ path' = [path EXCEPT ![j] = ino]
        /\ ofd' = [ofd EXCEPT ![p][j] = ino]
    /\ pc' = [pc EXCEPT ![p] = "flock"]
    /\ cur' = [cur EXCEPT ![p] = j]
    /\ lockRet' = [lockRet EXCEPT ![p] = "none"]
    /\ jobRet' = [jobRet EXCEPT ![p] = "none"]
    /\ worked' = [worked EXCEPT ![p] = FALSE]
    /\ UNCHANGED <<active, outcome, shutdown, holder>>

\* flock succeeds: p's description now holds the lock.
FlockOk(p) ==
    /\ pc[p] = "flock"
    /\ FlockFree(cur[p], ofd[p][cur[p]])
    /\ holder' = [holder EXCEPT ![cur[p]][ofd[p][cur[p]]] = p]
    /\ pc' = [pc EXCEPT ![p] = "stamp"]
    /\ UNCHANGED <<cur, ofd, active, lockRet, jobRet, outcome, shutdown, worked,
                   path>>

\* flock raises: fd.close(), (staleness is only logged), return False; the
\* job function then returns False without running its body.
FlockFail(p) ==
    /\ pc[p] = "flock"
    /\ ~FlockFree(cur[p], ofd[p][cur[p]])
    /\ ofd' = [ofd EXCEPT ![p][cur[p]] = 0]
    /\ lockRet' = [lockRet EXCEPT ![p] = "false"]
    /\ jobRet' = [jobRet EXCEPT ![p] = "false"]
    /\ pc' = [pc EXCEPT ![p] = JobEntry(FALSE)]
    /\ UNCHANGED <<cur, active, outcome, shutdown, worked, path, holder>>

\* fd.write(timestamp); _active_locks[func_name] = fd; return True.
Stamp(p) ==
    /\ pc[p] = "stamp"
    /\ active' = [active EXCEPT ![p][cur[p]] = TRUE]
    /\ lockRet' = [lockRet EXCEPT ![p] = "true"]
    /\ pc' = [pc EXCEPT ![p] = JobEntry(TRUE)]
    /\ UNCHANGED <<cur, ofd, jobRet, outcome, shutdown, worked, path,
                   holder>>

\* ----------------------------------------------------------------- job body
\* The body of process_watchlist / the upgrade sweep calls a service or
\* writes the counter file or the cache.
BodyStep(p) ==
    /\ pc[p] = "run"
    /\ ~worked[p]
    /\ worked' = [worked EXCEPT ![p] = TRUE]
    /\ UNCHANGED <<pc, cur, ofd, active, lockRet, jobRet, outcome, shutdown,
                   path, holder>>

\* The body ends: COMPLETED when it returns, FAILED on a fault.
BodyFinish(p, ending) ==
    /\ pc[p] = "run"
    /\ outcome' = [outcome EXCEPT ![p][cur[p]] =
                      IF ending = "return" THEN "completed" ELSE "failed"]
    /\ jobRet' = [jobRet EXCEPT ![p] = JobResult(ending)]
    /\ pc' = [pc EXCEPT ![p] = BodyEnd(p, ending)]
    /\ UNCHANGED <<cur, ofd, active, lockRet, shutdown, worked, path, holder>>

BodyDone(p) ==
    BodyFinish(p, "return")

BodyRaise(p) ==
    BodyFinish(p, "Exception")

\* The body's first statement imports the job's module; the first time the
\* process runs the job this executes the module and those it imports, which
\* call sys.exit(1) when they find no configuration, Plex URL or Plex token.
BodyExit(p) ==
    /\ pc[p] = "run"
    /\ ~worked[p]
    /\ outcome[p][cur[p]] \in {"none", "crashed"}
    /\ BodyFinish(p, "SystemExit")

\* --------------------------------------------------------- release_job_lock
\* fd = _active_locks[func_name]; fcntl.flock(fd, LOCK_UN).  When a signal
\* handler emptied _active_locks meanwhile the lookup raises and the except
\* clause skips to the removal of the file.
RelUnlock(p) ==
    /\ pc[p] = "rel_unlock"
    /\ IF active[p][cur[p]]
       THEN /\ holder' = Unlocked(p, cur[p])
            /\ pc' = [pc EXCEPT ![p] = "rel_close"]
       ELSE /\ holder' = holder
            /\ pc' = [pc EXCEPT ![p] = "rel_remove"]
    /\ UNCHANGED <<cur, ofd, active, lockRet, jobRet, outcome, shutdown, worked,
                   path>>

\* fd.close(); del _active_locks[func_name].
RelClose(p) ==
    /\ pc[p] = "rel_close"
    /\ holder' = Unlocked(p, cur[p])
    /\ ofd' = [ofd EXCEPT ![p][cur[p]] = 0]
    /\ active' = [active EXCEPT ![p][cur[p]] = FALSE]
    /\ pc' = [pc EXCEPT ![p] = "rel_remove"]
    /\ UNCHANGED <<cur, lockRet, jobRet, outcome, shutdown, worked, path>>

\* if os.path.exists(lock_file): os.remove(lock_file); the job function
\* is left.
RelRemove(p) ==
    /\ pc[p] = "rel_remove"
    /\ path' = [path EXCEPT ![cur[p]] = 0]
    /\ pc' = [pc EXCEPT ![p] = JobReturn(p)]
    /\ UNCHANGED <<cur, ofd, active, lockRet, jobRet, outcome, shutdown, worked,
                   holder>>

\* ----------------------------------------------------------- signal_handler
\* SIGTERM / SIGINT: _shutdown_requested = True; release_all_locks() runs
\* release_job_lock for every key of _active_locks, inside the handler, and
\* the interrupted code then resumes where it was.
Signal(p) ==
    /\ pc[p] # "exited"
    /\ shutdown' = [shutdown EXCEPT ![p] = TRUE]
    /\ holder' = [j \in Jobs |-> IF active[p][j] THEN Unlocked(p, j)[j]
                                 ELSE holder[j]]
    /\ ofd' = [ofd EXCEPT ![p] =
                  [j \in Jobs |-> IF active[p][j] THEN 0 ELSE ofd[p][j]]]
    /\ path' = [j \in Jobs |-> IF active[p][j] THEN 0 ELSE path[j]]
    /\ active' = [active EXCEPT ![p] = [j \in Jobs |-> FALSE]]
    /\ UNCHANGED <<pc, cur, lockRet, jobRet, outcome, worked>>

\* ------------------------------------------------------- crash and restart
\* A mutant of Closed: the flocks of a dead process stay in place.
ClosedKeepsLocks(p) ==
    holder

\* The operating system closes every descriptor of p when p ends, which
\* drops the flocks they hold.
Closed(p) ==
    [j \in Jobs |-> [i \in Inodes |->
        IF holder[j][i] = p THEN 0 ELSE holder[j][i]]]

\* p is killed inside a job function (SIGKILL, out of memory): nothing of
\* release_job_lock runs, the lock file stays where it is.
Crash(p) ==
    /\ pc[p] \in {"flock", "stamp", "run", "rel_unlock", "rel_close",
                  "rel_remove"}
    /\ holder' = Closed(p)
    /\ ofd' = [ofd EXCEPT ![p] = [j \in Jobs |-> 0]]
    /\ active' = [active EXCEPT ![p] = [j \in Jobs |-> FALSE]]
    /\ outcome' = [outcome EXCEPT ![p][cur[p]] =
                      IF active[p][cur[p]] THEN "crashed" ELSE @]
    /\ pc' = [pc EXCEPT ![p] = "crashed"]
    /\ UNCHANGED <<cur, lockRet, jobRet, shutdown, worked, path>>

\* The script is started again in the place of the process that was killed.
Restart(p) ==
    /\ pc[p] = "crashed"
    /\ pc' = [pc EXCEPT ![p] = "idle"]
    /\ cur' = [cur EXCEPT ![p] = "none"]
    /\ lockRet' = [lockRet EXCEPT ![p] = "none"]
    /\ jobRet' = [jobRet EXCEPT ![p] = "none"]
    /\ shutdown' = [shutdown EXCEPT ![p] = FALSE]
    /\ worked' = [worked EXCEPT ![p] = FALSE]
    /\ UNCHANGED <<ofd, active, outcome, path, holder>>

\* --------------------------------------------------- reconciliation engine
\* Watchlist items; item i resolves to library record i when it is indexed.
NumItems == 2
Items == 1..NumItems
\* Largest value of max_daily_searches and of searches_per_run.
MaxLimit == 1
\* No new run starts once the day's count has reached MaxCount.
MaxCount == 3
\* Dates the engine runs on.
MaxDay == 2

VARIABLES
    config,              \* max_daily_searches, searches_per_run (set = not
                         \* None), user_tagging.enabled
    plex_author_id,      \* plex_author_id[i]: item i came from a friend
    radarr,              \* radarr[i]: the library record of item i
    last_radarr_search,  \* last_radarr_search[i]: "never" (NULL), "old"
                         \* (24 hours ago or more) or "recent"
    daily_search_file,   \* {"date", "count"}; date 0 = no such file,
                         \* date -1 = a file json.load cannot read
    today,               \* datetime.date.today()
    tag_registry,        \* the friend tag label exists in the library
    tag_cache,           \* _tag_cache: "none", or filled without ("miss")
                         \* or with ("hit") the friend tag label
    sync,                \* the running process_watchlist: its dry_run
                         \* argument and its locals
    sweep,               \* the running upgrade sweep: its dry_run argument
                         \* and its locals
    obs                  \* what an observer of the library's API has seen

engineVars == <<config, plex_author_id, radarr, last_radarr_search,
                daily_search_file, today, tag_registry, tag_cache, sync,
                sweep, obs>>

\* Functions checked on their own: the arguments and the environment of the
\* calls, and what the calls have returned and written.
VARIABLES inp, out

fnVars == <<inp, out>>

vars == <<lockVars, gate, engineVars, fnVars>>

\* No record of the item in the library.
Absent ==
    [present |-> FALSE, wl |-> FALSE, up |-> FALSE, small |-> FALSE]

\* A record: present, carries the watchlist tag (wl), carries the upgrade
\* tag (up), its sizeOnDisk is below min_file_size_gb (small).
LibRecords ==
    {Absent} \cup [present : {TRUE}, wl : BOOLEAN, up : BOOLEAN,
                   small : BOOLEAN]

Limits ==
    {[set |-> FALSE, val |-> 0]} \cup [set : {TRUE}, val : 0..MaxLimit]

\* "not os.path.exists(file_path)".
FileMissing ==
    daily_search_file.date = 0

\* json.load(f) raises.
FileUnreadable ==
    daily_search_file.date < 0

\* read_daily_search_count with no test of the date.
read_daily_search_count_any_date ==
    IF FileMissing \/ FileUnreadable THEN 0 ELSE daily_search_file.count

\* read_daily_search_count: 0 when the file is missing, unreadable or of
\* another date, else its count.
read_daily_search_count ==
    IF FileMissing THEN 0
    ELSE IF FileUnreadable THEN 0
    ELSE IF daily_search_file.date # today THEN 0
    ELSE daily_search_file.count

\* A mutant of increment_daily_search_count: the count read is written back.
increment_daily_search_count_same ==
    [date |-> today, count |-> read_daily_search_count]

\* increment_daily_search_count: read, add one, write with today's date.
increment_daily_search_count ==
    [date |-> today, count |-> read_daily_search_count + 1]

\* save_daily_search_count(file, count).
save_daily_search_count(count) ==
    [date |-> today, count |-> count]

\* "global_daily_search_limit is not None and daily_search_count >= limit".
DailyLimitReached(daily_search_count) ==
    /\ config.max_daily_searches.set
    /\ daily_search_count >= config.max_daily_searches.val

\* "per_run_search_limit is not None and run_search_count >= limit".
RunLimitReached(run_search_count) ==
    /\ config.searches_per_run.set
    /\ run_search_count >= config.searches_per_run.val

\* A value of a dict: its Python type and the text str() gives for it.
PyNone == [type |-> "NoneType", text |-> "None"]

PyTrue == [type |-> "bool", text |-> "True"]

PyFalse == [type |-> "bool", text |-> "False"]

\* str(value): the text, whatever the type.
str(value) ==
    value.text

keys_to_check ==
    {"monitored", "qualityProfileId", "rootFolderPath", "path",
     "minimumAvailability"}

\* needs_update with the comparison of the tags left out.
needs_update_scalars(current_movie, new_payload) ==
    \/ \E key \in keys_to_check :
          str(current_movie[key]) # str(new_payload[key])
    \/ current_movie.searchForMovie # new_payload.searchForMovie

\* needs_update(current_movie, new_payload).  A dict is a record of the
\* values .get() returns for it: PyNone for a key it does not have, tags the
\* set of its tags, searchForMovie that of its addOptions.
needs_update(current_movie, new_payload) ==
    \/ \E key \in keys_to_check :
          str(current_movie[key]) # str(new_payload[key])
    \/ current_movie.tags # new_payload.tags
    \/ current_movie.searchForMovie # new_payload.searchForMovie

\* The dict of a library record as get_all_movies returns it: the tags of
\* the record, its other fields as the library keeps them, no addOptions.
LibraryMovie(r) ==
    [monitored |-> PyTrue,
     qualityProfileId |-> [type |-> "int", text |-> "1"],
     rootFolderPath |-> [type |-> "str", text |-> "/movies/"],
     path |-> [type |-> "str", text |-> "/movies/a"],
     minimumAvailability |-> [type |-> "str", text |-> "released"],
     tags |-> {t \in {"watchlist", "upgrade"} :
                  \/ t = "watchlist" /\ r.wl
                  \/ t = "upgrade" /\ r.up},
     searchForMovie |-> PyNone]

\* The tags of the update payload, from those of the record: the watchlist
\* tag added, the upgrade tag added when eligible and removed when not, the
\* friend tag added when there is one.
UpdateTags(tags, eligible_for_upgrade, friend_tag_id) ==
    ((tags \cup {"watchlist"}) \ {"upgrade"})
        \cup {t \in {"upgrade", "friend"} :
                 \/ t = "upgrade" /\ eligible_for_upgrade
                 \/ t = "friend" /\ friend_tag_id}

\* movie_tags of the create payload: the watchlist tag, the upgrade tag, and
\* the friend tag when there is one.
AddTags(friend_tag_id) ==
    {"watchlist", "upgrade"} \cup {t \in {"friend"} : friend_tag_id}

\* The update payload of the sync job for a record: the record's fields,
\* the tags of UpdateTags, addOptions.searchForMovie False.
UpdatePayload(r, eligible_for_upgrade, friend_tag_id) ==
    [LibraryMovie(r) EXCEPT
        !.tags = UpdateTags(@, eligible_for_upgrade, friend_tag_id),
        !.searchForMovie = PyFalse]

\* A counter of the observer, which stops counting at MaxCount.
Counted(n) ==
    IF n < MaxCount THEN n + 1 ELSE n

NoItem ==
    [item |-> 0, skipped |-> FALSE, eligible |-> FALSE, calls |-> {}]

\* dry: the write requests ("tag", "create", "update", "search") that runs
\* invoked with dry_run = True have sent to the library.  raised: the
\* exception that ended the last sweep, "none" when it ran to its end.
ObsInit ==
    [okToday |-> 0,
     admitted |-> [j \in {"sync", "sweep"} |-> 0],
     syncOk |-> [i \in Items |-> 0],
     last |-> NoItem,
     dry |-> {},
     raised |-> "none"]

SyncIdle ==
    [pc |-> "idle", dry_run |-> FALSE,
     radarr_index |-> [i \in Items |-> Absent], next |-> 1,
     daily_search_count |-> 0, run_search_count |-> 0]

SweepIdle ==
    [pc |-> "idle", dry_run |-> FALSE, search_candidates |-> <<>>, i |-> 0,
     daily_search_count |-> 0]

\* The engine before its first run, for the given policies, watchlists,
\* library records and cache contents.
EngineInit(Configs, Authors, Records, Searches) ==
    /\ config \in Configs
    /\ plex_author_id \in [Items -> Authors]
    /\ radarr \in [Items -> Records]
    /\ last_radarr_search \in [Items -> Searches]
    /\ daily_search_file = [date |-> 0, count |-> 0]
    /\ today = 1
    /\ tag_registry \in {b \in BOOLEAN : b => TRUE \in Authors}
    /\ tag_cache = "none"
    /\ sync = SyncIdle
    /\ sweep = SweepIdle
    /\ obs = ObsInit

\* ------------------------------------------------------- process_watchlist
\* process_watchlist up to its loop: build_radarr_index() snapshots the
\* library, read_daily_search_count() the counter, run_search_count = 0.
SyncStart(dry_run) ==
    /\ sync.pc = "idle"
    /\ read_daily_search_count < MaxCount
    /\ sync' = [pc |-> "items", dry_run |-> dry_run,
                radarr_index |-> radarr, next |-> 1,
                daily_search_count |-> read_daily_search_count,
                run_search_count |-> 0]
    /\ obs' = [obs EXCEPT !.admitted["sync"] = 0, !.last = NoItem]
    /\ UNCHANGED <<config, plex_author_id, radarr, last_radarr_search,
                   daily_search_file, today, tag_registry, tag_cache, sweep>>

\* One pass of "for movie in combined_list".  The parameters are the
\* outcomes of the requests the pass may send: GET tags, POST tag, POST
\* movie (add_movie), PUT movie (update_movie), POST command (trigger_search),
\* and of the write of mark_movie_as_searched, which returns False when
\* sqlite raises.
SyncItem(tagsOk, tagOk, addOk, updOk, trigOk, dbOk) ==
    /\ sync.pc = "items"
    /\ sync.next <= NumItems
    /\ LET i == sync.next
           radarr_movie == sync.radarr_index[i]
           \* get_or_create_tag(friend_tag_name)
           wantTag == config.user_tagging /\ plex_author_id[i]
           fetched == wantTag /\ tag_cache = "none" /\ tagsOk
           cache1 == IF fetched
                     THEN (IF tag_registry THEN "hit" ELSE "miss")
                     ELSE tag_cache
           posted == wantTag /\ cache1 # "hit"
           created == posted /\ tagOk
           cache2 == IF created /\ cache1 # "none" THEN "hit" ELSE cache1
           friend_tag_id == wantTag /\ (cache1 = "hit" \/ created)
           \* resolution, and the skip of records carrying the watchlist tag
           skip == radarr_movie.present /\ radarr_movie.wl
           new == ~skip /\ ~radarr_movie.present
           existing == ~skip /\ radarr_movie.present
           \* create branch: add_movie under "if not dry_run"
           post == new /\ ~sync.dry_run
           added == post /\ addOk /\ ~radarr[i].present
           \* existing branch
           eligible_for_upgrade == radarr_movie.small
           payload == UpdatePayload(radarr_movie, eligible_for_upgrade,
                                    friend_tag_id)
           put == /\ existing
                  /\ ~sync.dry_run
                  /\ needs_update(LibraryMovie(radarr_movie), payload)
           updated == put /\ updOk /\ radarr[i].present
           \* search admission
           limitsOk == /\ ~DailyLimitReached(sync.daily_search_count)
                       /\ ~RunLimitReached(sync.run_search_count)
           admit == \/ added /\ limitsOk
                    \/ /\ existing
                       /\ ~sync.dry_run
                       /\ eligible_for_upgrade
                       /\ last_radarr_search[i] = "never"
                       /\ limitsOk
           searched == admit /\ trigOk /\ (added \/ radarr[i].present)
           \* a search is due but for the limits
           due == \/ added
                  \/ /\ existing
                     /\ ~sync.dry_run
                     /\ eligible_for_upgrade
                     /\ last_radarr_search[i] = "never"
           calls == {c \in {"tag", "create", "update", "search"} :
                        \/ c = "tag" /\ posted
                        \/ c = "create" /\ post
                        \/ c = "update" /\ put
                        \/ c = "search" /\ admit}
       IN
        /\ tag_cache' = cache2
        /\ tag_registry' = (tag_registry \/ created)
        /\ radarr' = [radarr EXCEPT ![i] =
              IF added
              THEN [present |-> TRUE, wl |-> TRUE, up |-> TRUE,
                    small |-> TRUE]
              ELSE IF updated
              THEN [@ EXCEPT !.wl = TRUE, !.up = eligible_for_upgrade]
              ELSE @]
        /\ last_radarr_search' =
              IF searched /\ dbOk
              THEN [last_radarr_search EXCEPT ![i] = "recent"]
              ELSE last_radarr_search
        /\ daily_search_file' =
              IF searched THEN increment_daily_search_count
              ELSE daily_search_file
        /\ sync' = [sync EXCEPT
              !.next = @ + 1,
              !.run_search_count = IF searched THEN @ + 1 ELSE @,
              !.daily_search_count = IF searched THEN @ + 1 ELSE @]
        /\ obs' = [obs EXCEPT
              !.okToday = IF searched THEN Counted(@) ELSE @,
              !.admitted["sync"] = IF admit THEN Counted(@) ELSE @,
              !.syncOk[i] = IF searched THEN Counted(@) ELSE @,
              !.last = [item |-> i, skipped |-> skip, eligible |-> due,
                        calls |-> calls],
              !.dry = IF sync.dry_run THEN @ \cup calls ELSE @]
    /\ UNCHANGED <<config, plex_author_id, today, sweep>>

\* After the loop: save_daily_search_count(file, daily_search_count).
SyncEnd ==
    /\ sync.pc = "items"
    /\ sync.next > NumItems
    /\ daily_search_file' = save_daily_search_count(sync.daily_search_count)
    /\ sync' = SyncIdle
    /\ UNCHANGED <<config, plex_author_id, radarr, last_radarr_search, today,
                   tag_registry, tag_cache, sweep, obs>>

\* -------------------------------------------- scheduled_upgrader.job_upgrade
\* search_candidates.sort(key = (last_search_time, size)): never-searched
\* records (datetime.min) first; the order inside a group is that of the
\* timestamps and sizes, which the model leaves open.
SortedCandidates(S) ==
    {q \in [1..Cardinality(S) -> S] :
        \A a, b \in 1..Cardinality(S) :
            a < b => /\ q[a] # q[b]
                     /\ (last_radarr_search[q[b]] = "never"
                            => last_radarr_search[q[a]] = "never")}

\* The sweep up to its search loop.  Phase 1 clears the upgrade tag of the
\* records at or above the size threshold, unless dry_run (rmOk: the PUT
\* succeeds); phase 2 reads the counter and collects the candidates outside
\* the 24 h cooldown.  With searches_per_run null, "per_run_search_limit <=
\* 0" raises TypeError and the job ends in its except clause.
SweepStart(dry_run, rmOk) ==
    /\ sweep.pc = "idle"
    /\ read_daily_search_count < MaxCount
    /\ LET movies_from_radarr ==
               {i \in Items : radarr[i].present /\ radarr[i].up}
           put == {i \in movies_from_radarr : ~radarr[i].small /\ ~dry_run}
           cleared == {i \in put : rmOk}
           candidates == {i \in movies_from_radarr :
                             /\ radarr[i].small
                             /\ last_radarr_search[i] # "recent"}
           none == \/ DailyLimitReached(read_daily_search_count)
                   \/ config.searches_per_run.val <= 0
       IN
        /\ movies_from_radarr # {}
        /\ radarr' = [i \in Items |->
              IF i \in cleared THEN [radarr[i] EXCEPT !.up = FALSE]
              ELSE radarr[i]]
        /\ IF ~config.searches_per_run.set
           THEN sweep' = sweep
           ELSE \E q \in SortedCandidates(candidates) :
                  sweep' = [pc |-> "items",
                            dry_run |-> dry_run,
                            search_candidates |-> IF none THEN <<>> ELSE q,
                            i |-> 0,
                            daily_search_count |-> read_daily_search_count]
        /\ obs' = [obs EXCEPT
              !.admitted["sweep"] = 0,
              !.dry = IF dry_run /\ put # {} THEN @ \cup {"update"} ELSE @,
              !.raised = IF config.searches_per_run.set THEN "none"
                         ELSE "TypeError"]
    /\ UNCHANGED <<config, plex_author_id, last_radarr_search,
                   daily_search_file, today, tag_registry, tag_cache, sync>>

\* The loop "for i, (movie, _, _) in enumerate(search_candidates)" goes on.
SweepGoesOn ==
    /\ sweep.i < Len(sweep.search_candidates)
    /\ sweep.i < config.searches_per_run.val
    /\ ~DailyLimitReached(sweep.daily_search_count)

\* One pass of the search loop: trigger_search for the next candidate, then
\* mark_movie_as_searched (dbOk: its write succeeds).
SweepItem(trigOk, dbOk) ==
    /\ sweep.pc = "items"
    /\ SweepGoesOn
    /\ LET m == sweep.search_candidates[sweep.i + 1]
           \* trigger_search under "if not dry_run"
           post == ~sweep.dry_run
           searched == post /\ trigOk /\ radarr[m].present
       IN
        /\ last_radarr_search' =
              IF searched /\ dbOk
              THEN [last_radarr_search EXCEPT ![m] = "recent"]
              ELSE last_radarr_search
        /\ daily_search_file' =
              IF searched THEN increment_daily_search_count
              ELSE daily_search_file
        /\ sweep' = [sweep EXCEPT
              !.i = @ + 1,
              !.daily_search_count = IF searched THEN @ + 1 ELSE @]
        /\ obs' = [obs EXCEPT
              !.okToday = IF searched THEN Counted(@) ELSE @,
              !.admitted["sweep"] = IF post THEN Counted(@) ELSE @,
              !.dry = IF sweep.dry_run /\ post THEN @ \cup {"search"} ELSE @]
    /\ UNCHANGED <<config, plex_author_id, radarr, today, tag_registry,
                   tag_cache, sync>>

\* The loop ends or breaks: save_daily_search_count(file, daily_search_count).
SweepEnd ==
    /\ sweep.pc = "items"
    /\ ~SweepGoesOn
    /\ daily_search_file' = save_daily_search_count(sweep.daily_search_count)
    /\ sweep' = SweepIdle
    /\ UNCHANGED <<config, plex_author_id, radarr, last_radarr_search, today,
                   tag_registry, tag_cache, sync, obs>>

\* -------------------------------------------------------------- environment
\* The library's owner deletes the record of item i from the library.
LibraryDelete(i) ==
    /\ radarr[i].present
    /\ obs.syncOk[i] < MaxCount
    /\ radarr' = [radarr EXCEPT ![i] = Absent]
    /\ UNCHANGED <<config, plex_author_id, last_radarr_search,
                   daily_search_file, today, tag_registry, tag_cache, sync,
                   sweep, obs>>

\* Midnight: datetime.date.today() changes.
NewDay ==
    /\ today < MaxDay
    /\ today' = today + 1
    /\ obs' = [obs EXCEPT !.okToday = 0]
    /\ UNCHANGED <<config, plex_author_id, radarr, last_radarr_search,
                   daily_search_file, tag_registry, tag_cache, sync, sweep>>

\* --------------------------------------------------------------------- Init
\* The gate scenario is not running.
GateOff ==
    [job |-> "none", phase |-> "off", racers |-> {}, again |-> {}]

\* No limits, no tagging, an empty library: the engine is not running.
EngineOff ==
    EngineInit({[max_daily_searches |-> [set |-> FALSE, val |-> 0],
                 searches_per_run |-> [set |-> FALSE, val |-> 0],
                 user_tagging |-> FALSE]},
               {FALSE}, {Absent}, {"never"})

\* No function is under check.
FnOff ==
    /\ inp = <<>>
    /\ out = <<>>

Init ==
    /\ LockInit
    /\ gate = GateOff
    /\ EngineOff
    /\ FnOff

\* ------------------------------------------------------------ specifications
\* The steps of with_job_lock, the job body and release_job_lock.
LockStep(p) ==
    \/ \E j \in Jobs : Open(p, j) /\ UNCHANGED <<gate, engineVars, fnVars>>
    \/ FlockOk(p) /\ UNCHANGED <<gate, engineVars, fnVars>>
    \/ FlockFail(p) /\ UNCHANGED <<gate, engineVars, fnVars>>
    \/ Stamp(p) /\ UNCHANGED <<gate, engineVars, fnVars>>
    \/ BodyStep(p) /\ UNCHANGED <<gate, engineVars, fnVars>>
    \/ BodyDone(p) /\ UNCHANGED <<gate, engineVars, fnVars>>
    \/ BodyRaise(p) /\ UNCHANGED <<gate, engineVars, fnVars>>
    \/ BodyExit(p) /\ UNCHANGED <<gate, engineVars, fnVars>>
    \/ RelUnlock(p) /\ UNCHANGED <<gate, engineVars, fnVars>>
    \/ RelClose(p) /\ UNCHANGED <<gate, engineVars, fnVars>>
    \/ RelRemove(p) /\ UNCHANGED <<gate, engineVars, fnVars>>

\* A termination signal reaches p.
SignalStep(p) ==
    Signal(p) /\ UNCHANGED <<gate, engineVars, fnVars>>

LockNext ==
    \E p \in Procs : LockStep(p)

\* Processes that acquire and release job locks, no signal delivered.
LockSpec ==
    Init /\ [][LockNext]_vars

Next ==
    \/ \E p \in Procs : LockStep(p)
    \/ \E p \in Procs : SignalStep(p)

\* Processes running the scheduler script, with termination signals.
Spec ==
    Init /\ [][Next]_vars


\* The scheduler process observed, and another process running the script.
Sched ==
    CHOOSE p \in Procs : \A q \in Procs : p <= q

Other ==
    CHOOSE p \in Procs : \A q \in Procs : q <= p

SchedNext ==
    \/ LockStep(Sched)
    \/ SignalStep(Sched)
    \/ LockStep(Other)

\* One scheduler, which may be signalled, and one contender for its locks.
SchedSpec ==
    Init /\ [][SchedNext]_vars

CrashNext ==
    \/ LockStep(Sched)
    \/ LockStep(Other)
    \/ Crash(Sched) /\ UNCHANGED <<gate, engineVars, fnVars>>
    \/ Restart(Sched) /\ UNCHANGED <<gate, engineVars, fnVars>>

\* One scheduler, which may be killed inside a job and is then started
\* again, and one contender for its locks.
CrashSpec ==
    Init /\ [][CrashNext]_vars

\* ------------------------------------------- release_job_lock, as called
\* out[p]: _active_locks held the job's name when the finally clause of p's
\* job function called release_job_lock.
ReleaseInit ==
    /\ LockInit
    /\ gate = GateOff
    /\ EngineOff
    /\ inp = <<>>
    /\ out = [p \in Procs |-> FALSE]

\* The body of p's job function ends and its finally clause calls
\* release_job_lock.
ReleaseCalled(p) ==
    /\ BodyDone(p) \/ BodyRaise(p) \/ BodyExit(p)
    /\ out' = [out EXCEPT ![p] = active[p][cur[p]]]
    /\ UNCHANGED <<gate, engineVars, inp>>

\* The steps of p but for the end of the body.
ReleaseStep(p) ==
    \/ \E j \in Jobs : Open(p, j) /\ UNCHANGED <<gate, engineVars, fnVars>>
    \/ FlockOk(p) /\ UNCHANGED <<gate, engineVars, fnVars>>
    \/ FlockFail(p) /\ UNCHANGED <<gate, engineVars, fnVars>>
    \/ Stamp(p) /\ UNCHANGED <<gate, engineVars, fnVars>>
    \/ BodyStep(p) /\ UNCHANGED <<gate, engineVars, fnVars>>
    \/ RelUnlock(p) /\ UNCHANGED <<gate, engineVars, fnVars>>
    \/ RelClose(p) /\ UNCHANGED <<gate, engineVars, fnVars>>
    \/ RelRemove(p) /\ UNCHANGED <<gate, engineVars, fnVars>>

ReleaseNext ==
    \/ ReleaseStep(Sched)
    \/ ReleaseCalled(Sched)
    \/ SignalStep(Sched)
    \/ ReleaseStep(Other)
    \/ ReleaseCalled(Other)

\* One scheduler, which may be signalled, and one contender for its locks.
ReleaseSpec ==
    ReleaseInit /\ [][ReleaseNext]_vars

\* ------------------------------------------------------ the scheduler loop
\* Most calls of schedule.run_pending() before a signal arrives.
MaxPolls == 3

\* The jobs run_pending() finds due, in the order it runs them.
DueJobs ==
    {<<>>, <<"watchlist_sync">>, <<"upgrade_job">>,
     <<"watchlist_sync", "upgrade_job">>,
     <<"upgrade_job", "watchlist_sync">>}

\* main() in scheduler mode.  pc: "test" (the while condition), "pending"
\* (inside run_pending, between jobs), "job" (inside a job function),
\* "sleep", "stopped" (the loop is left) or "exited" (SystemExit ended the
\* process); due: the jobs run_pending has still to run; late: the jobs
\* started after _shutdown_requested was set.
LoopInit ==
    /\ LockInit
    /\ gate = GateOff
    /\ EngineOff
    /\ inp = <<>>
    /\ out = [pc |-> "test", shutdown_requested |-> FALSE, due |-> <<>>,
              job |-> "none", polls |-> 0, late |-> {}]

\* "while not _shutdown_requested:" and the call of schedule.run_pending().
LoopTest ==
    /\ out.pc = "test"
    /\ out.shutdown_requested \/ out.polls < MaxPolls
    /\ IF out.shutdown_requested
       THEN out' = [out EXCEPT !.pc = "stopped"]
       ELSE \E due \in DueJobs :
               out' = [out EXCEPT !.pc = "pending", !.due = due,
                                  !.polls = @ + 1]
    /\ UNCHANGED <<lockVars, gate, engineVars, inp>>

\* run_pending() calls the next job that is due.
JobStart ==
    /\ out.pc = "pending"
    /\ out.due # <<>>
    /\ out' = [out EXCEPT
          !.pc = "job",
          !.job = Head(out.due),
          !.due = Tail(out.due),
          !.late = IF out.shutdown_requested
                   THEN @ \cup {Head(out.due)} ELSE @]
    /\ UNCHANGED <<lockVars, gate, engineVars, inp>>

\* The job function returns (True, or False from its except clause), or
\* SystemExit passes through it and through the loop's "except Exception".
JobEnd(ending) ==
    /\ out.pc = "job"
    /\ out' = [out EXCEPT
          !.pc = IF JobResult(ending) = "raised" THEN "exited"
                 ELSE "pending",
          !.job = "none"]
    /\ UNCHANGED <<lockVars, gate, engineVars, inp>>

\* run_pending() returns; time.sleep(60).
PendingDone ==
    /\ out.pc = "pending"
    /\ out.due = <<>>
    /\ out' = [out EXCEPT !.pc = "sleep"]
    /\ UNCHANGED <<lockVars, gate, engineVars, inp>>

\* run_pending() raises: "if _shutdown_requested: break", else
\* time.sleep(120).
PendingRaise ==
    /\ out.pc = "pending"
    /\ out' = [out EXCEPT
          !.pc = IF out.shutdown_requested THEN "stopped" ELSE "sleep",
          !.due = <<>>]
    /\ UNCHANGED <<lockVars, gate, engineVars, inp>>

\* time.sleep returns.
Wake ==
    /\ out.pc = "sleep"
    /\ out' = [out EXCEPT !.pc = "test"]
    /\ UNCHANGED <<lockVars, gate, engineVars, inp>>

\* signal_handler: _shutdown_requested = True; the interrupted statement
\* goes on.
LoopSignal ==
    /\ out.pc \notin {"stopped", "exited"}
    /\ ~out.shutdown_requested
    /\ out' = [out EXCEPT !.shutdown_requested = TRUE]
    /\ UNCHANGED <<lockVars, gate, engineVars, inp>>

\* The steps of the process itself.
LoopProgress ==
    \/ LoopTest
    \/ JobStart
    \/ \E ending \in {"return", "Exception", "SystemExit"} : JobEnd(ending)
    \/ PendingDone
    \/ Wake

LoopNext ==
    \/ LoopTest
    \/ JobStart
    \/ \E ending \in {"return", "Exception", "SystemExit"} : JobEnd(ending)
    \/ PendingDone
    \/ PendingRaise
    \/ Wake
    \/ LoopSignal

\* The loop with every job run and every sleep coming to its end.
LoopSpec ==
    /\ LoopInit
    /\ [][LoopNext]_vars
    /\ WF_vars(LoopProgress)

\* Every step of a process except the start of a job.
Progress(p) ==
    /\ \/ FlockOk(p)
       \/ FlockFail(p)
       \/ Stamp(p)
       \/ BodyStep(p)
       \/ BodyDone(p)
       \/ BodyRaise(p)
       \/ BodyExit(p)
       \/ RelUnlock(p)
       \/ RelClose(p)
       \/ RelRemove(p)
    /\ UNCHANGED <<gate, engineVars, fnVars>>

\* schedule.run_pending() starts job j when its interval has elapsed.
StartJob(p, j) ==
    Open(p, j) /\ UNCHANGED <<gate, engineVars, fnVars>>

\* The scheduler keeps executing, and its loop starts every job again each
\* time the job's interval has elapsed, for as long as the loop runs.
FairSpec ==
    /\ SchedSpec
    /\ WF_vars(Progress(Sched))
    /\ \A j \in Jobs : SF_vars(StartJob(Sched, j))

\* ------------------------------------------------- the age of a held lock
\* The last reading of the clock of the lock file.
MaxTime == 5

\* One process holds the lock of a job for a while, another calls
\* with_job_lock for the same job.  now: time.time(); mtime: the file's
\* modification time, -1 when there is no file; text: the timestamp the
\* file holds, -1 when it is empty or missing; held, acquired_at: the
\* holder has the flock, since when; opened: the caller has opened the
\* file; attempt: the last failed call, with the time the lock had been
\* held (held_for, capped), and what the call logged.
NoAttempt ==
    [made |-> FALSE, held_for |-> 0, lock_age |-> 0, logged |-> "none",
     ret |-> "none"]

StaleInit ==
    /\ LockInit
    /\ gate = GateOff
    /\ EngineOff
    /\ inp \in [LOCK_TIMEOUT_SECONDS : 1..2]
    /\ out = [now |-> 0, mtime |-> -1, text |-> -1, held |-> FALSE,
              acquired_at |-> 0, opened |-> FALSE, attempt |-> NoAttempt]

\* with_job_lock of the holder: open(lock_file, 'w'), flock, fd.write.
HolderAcquire ==
    /\ ~out.held
    /\ ~out.opened
    /\ out' = [out EXCEPT !.held = TRUE, !.acquired_at = out.now,
                          !.mtime = out.now, !.text = out.now,
                          !.attempt = NoAttempt]
    /\ UNCHANGED <<lockVars, gate, engineVars, inp>>

\* release_job_lock of the holder: unlock, close, os.remove(lock_file).
HolderRelease ==
    /\ out.held
    /\ ~out.opened
    /\ out' = [out EXCEPT !.held = FALSE, !.mtime = -1, !.text = -1]
    /\ UNCHANGED <<lockVars, gate, engineVars, inp>>

\* Time passes while the holder runs its job.
TimePasses ==
    /\ out.now < MaxTime
    /\ out.held
    /\ out' = [out EXCEPT !.now = @ + 1]
    /\ UNCHANGED <<lockVars, gate, engineVars, inp>>

\* with_job_lock of the caller, first statement: open(lock_file, 'w')
\* truncates the file, which sets its modification time.
CallerOpen ==
    /\ out.held
    /\ ~out.opened
    /\ out' = [out EXCEPT !.opened = TRUE, !.mtime = out.now,
                          !.text = -1, !.attempt = NoAttempt]
    /\ UNCHANGED <<lockVars, gate, engineVars, inp>>

\* flock raises; fd.close(); lock_age = time.time() - getmtime(lock_file);
\* "if lock_age > LOCK_TIMEOUT_SECONDS" the lock is logged as stale, else
\* the job as running; return False.
CallerFail ==
    /\ out.held
    /\ out.opened
    /\ LET lock_age == out.now - out.mtime
           held_for == out.now - out.acquired_at
       IN  out' = [out EXCEPT
               !.opened = FALSE,
               !.attempt = [made |-> TRUE, held_for |-> held_for,
                            lock_age |-> lock_age,
                            logged |-> IF lock_age > inp.LOCK_TIMEOUT_SECONDS
                                       THEN "stale" ELSE "running",
                            ret |-> "false"]]
    /\ UNCHANGED <<lockVars, gate, engineVars, inp>>

StaleNext ==
    \/ HolderAcquire
    \/ HolderRelease
    \/ TimePasses
    \/ CallerOpen
    \/ CallerFail

StaleSpec ==
    StaleInit /\ [][StaleNext]_vars

\* ------------------------------------------------- the lock-gate scenario
\* Two callers acquire one job's lock concurrently while it is free (the
\* lock file may be left over from a crashed run); after both calls have
\* returned the holder releases; then one more acquire is made.
GateInit ==
    /\ LockInit
    /\ EngineOff
    /\ FnOff
    /\ \E j \in Jobs :
          gate = [job |-> j, phase |-> "race", racers |-> {}, again |-> {}]

\* Before the race: a run that crashed earlier left the lock file on disk.
GateLeftover ==
    /\ gate.phase = "race"
    /\ gate.racers = {}
    /\ path[gate.job] = 0
    /\ path' = [path EXCEPT ![gate.job] = NewInode(gate.job)]
    /\ UNCHANGED <<pc, cur, ofd, active, lockRet, jobRet, outcome,
                   shutdown, worked, holder, gate, engineVars, fnVars>>

GateRace(p) ==
    /\ gate.phase = "race"
    /\ p \notin gate.racers
    /\ Cardinality(gate.racers) < 2
    /\ Open(p, gate.job)
    /\ gate' = [gate EXCEPT !.racers = @ \cup {p}]
    /\ UNCHANGED <<engineVars, fnVars>>

GateAcquire(p) ==
    /\ \/ FlockOk(p)
       \/ FlockFail(p)
       \/ Stamp(p)
       \/ BodyStep(p)
    /\ UNCHANGED <<gate, engineVars, fnVars>>

GateRelease(p) ==
    /\ gate.phase = "race"
    /\ Cardinality(gate.racers) = 2
    /\ \A q \in gate.racers : lockRet[q] # "none"
    /\ \/ BodyDone(p)
       \/ BodyRaise(p)
       \/ BodyExit(p)
    /\ gate' = [gate EXCEPT !.phase = "release"]
    /\ UNCHANGED <<engineVars, fnVars>>

GateReleasing(p) ==
    /\ \/ RelUnlock(p)
       \/ RelClose(p)
    /\ UNCHANGED <<gate, engineVars, fnVars>>

GateReleased(p) ==
    /\ RelRemove(p)
    /\ gate' = [gate EXCEPT !.phase = "again"]
    /\ UNCHANGED <<engineVars, fnVars>>

GateAgain(p) ==
    /\ gate.phase = "again"
    /\ Open(p, gate.job)
    /\ gate' = [gate EXCEPT !.phase = "final", !.again = {p}]
    /\ UNCHANGED <<engineVars, fnVars>>

GateNext ==
    \/ GateLeftover
    \/ \E p \in Procs : GateRace(p)
    \/ \E p \in Procs : GateAcquire(p)
    \/ \E p \in Procs : GateRelease(p)
    \/ \E p \in Procs : GateReleasing(p)
    \/ \E p \in Procs : GateReleased(p)
    \/ \E p \in Procs : GateAgain(p)

GateSpec ==
    GateInit /\ [][GateNext]_vars

\* ------------------------------------------------ search admission, shared
\* A sync run and a sweep run of two processes, over one counter file and
\* one cache; the library holds, or not, small records awaiting upgrade.
AdmitInit ==
    /\ LockInit
    /\ gate = GateOff
    /\ FnOff
    /\ EngineInit([max_daily_searches : Limits, searches_per_run : Limits,
                   user_tagging : {FALSE}],
                  {FALSE},
                  {Absent, [present |-> TRUE, wl |-> FALSE, up |-> TRUE,
                            small |-> TRUE]},
                  {"never", "old"})

AdmitNext ==
    \/ SyncStart(FALSE) /\ UNCHANGED <<lockVars, gate, fnVars>>
    \/ \E addOk, updOk, trigOk \in BOOLEAN :
          SyncItem(TRUE, TRUE, addOk, updOk, trigOk, TRUE)
          /\ UNCHANGED <<lockVars, gate, fnVars>>
    \/ SyncEnd /\ UNCHANGED <<lockVars, gate, fnVars>>
    \/ \E rmOk \in BOOLEAN :
          SweepStart(FALSE, rmOk) /\ UNCHANGED <<lockVars, gate, fnVars>>
    \/ \E trigOk \in BOOLEAN :
          SweepItem(trigOk, TRUE) /\ UNCHANGED <<lockVars, gate, fnVars>>
    \/ SweepEnd /\ UNCHANGED <<lockVars, gate, fnVars>>
    \/ NewDay /\ UNCHANGED <<lockVars, gate, fnVars>>

AdmitSpec ==
    AdmitInit /\ [][AdmitNext]_vars

\* ------------------------------------------------- sync runs, one after one
\* Sync runs over a library whose owner may delete records, with friend
\* tagging on or off.
SyncInit ==
    /\ LockInit
    /\ gate = GateOff
    /\ FnOff
    /\ EngineInit([max_daily_searches : {[set |-> FALSE, val |-> 0]},
                   searches_per_run : {[set |-> FALSE, val |-> 0]},
                   user_tagging : BOOLEAN],
                  BOOLEAN,
                  {Absent,
                   [present |-> TRUE, wl |-> TRUE, up |-> TRUE,
                    small |-> TRUE],
                   [present |-> TRUE, wl |-> FALSE, up |-> FALSE,
                    small |-> TRUE]},
                  {"never"})

SyncNext ==
    \/ SyncStart(FALSE) /\ UNCHANGED <<lockVars, gate, fnVars>>
    \/ \E tagsOk, tagOk, addOk, updOk, trigOk \in BOOLEAN :
          SyncItem(tagsOk, tagOk, addOk, updOk, trigOk, TRUE)
          /\ UNCHANGED <<lockVars, gate, fnVars>>
    \/ SyncEnd /\ UNCHANGED <<lockVars, gate, fnVars>>
    \/ \E i \in Items : LibraryDelete(i) /\ UNCHANGED <<lockVars, gate, fnVars>>

SyncSpec ==
    SyncInit /\ [][SyncNext]_vars

\* ------------------------------------------------------ the identity cache
\* The clock, in hours.
MaxHour == 170

Clock == 0..MaxHour

\* "days_since_last_search >= 7".
CooldownDays == 7

\* "hours_since_last < 24".
CooldownHours == 24

\* The value of a row's last_radarr_search column: NULL or empty ("null"),
\* an ISO timestamp written at hour t ("iso"), or a text that
\* datetime.fromisoformat rejects ("bad").
LastSearches ==
    {[kind |-> "null", t |-> 0], [kind |-> "bad", t |-> 0]}
        \cup [kind : {"iso"}, t : Clock]

IdKinds == {"rating_key", "imdb_id", "tmdb_id"}

\* No row: get_plex_metadata returns None.
NoRow ==
    [keys |-> {}, last_radarr_search |-> [kind |-> "null", t |-> 0]]

\* The cache with the item's row, stored under the identifiers in keys.
CacheRows ==
    {NoRow} \cup [keys : SUBSET IdKinds \ {{}},
                  last_radarr_search : LastSearches]

\* get_plex_metadata(kind = the item's identifier of that kind).
get_plex_metadata(db, kind) ==
    IF kind \in db.keys THEN db ELSE NoRow

\* "if not db_movie".
IsNone(db_movie) ==
    db_movie.keys = {}

\* The identifiers a movie dict carries.
Movies ==
    [ratingKey : BOOLEAN, imdbId : BOOLEAN, tmdbId : BOOLEAN]

\* timedelta.days rounded up instead of down.
TimedeltaDaysUp(hours) ==
    (hours + 23) \div 24

\* timedelta.days of a difference of so many hours: the whole days, rounded
\* towards minus infinity.
TimedeltaDays(hours) ==
    hours \div 24

\* should_trigger_search(movie), run at hour now over the cache db.
should_trigger_search(movie, db, now) ==
    LET db_movie ==
            IF movie.ratingKey THEN get_plex_metadata(db, "rating_key")
            ELSE IF movie.imdbId THEN get_plex_metadata(db, "imdb_id")
            ELSE IF movie.tmdbId THEN get_plex_metadata(db, "tmdb_id")
            ELSE NoRow
        last_search_str == db_movie.last_radarr_search
        days_since_last_search == TimedeltaDays(now - last_search_str.t)
    IN  IF IsNone(db_movie) THEN TRUE
        ELSE IF last_search_str.kind = "null" THEN TRUE
        ELSE IF last_search_str.kind = "bad" THEN TRUE
        ELSE days_since_last_search >= CooldownDays

\* datetime.min: before every timestamp, and further back than any cooldown.
datetime_min ==
    0 - MaxHour

\* The sweep's last_search_time of a record of the library.
last_search_time(db_record) ==
    IF ~IsNone(db_record) /\ db_record.last_radarr_search.kind = "iso"
    THEN db_record.last_radarr_search.t
    ELSE datetime_min

\* The sweep's cache lookup for a record: by tmdbId, then by imdbId.
SweepLookup(movie, db) ==
    LET by_tmdb == IF movie.tmdbId THEN get_plex_metadata(db, "tmdb_id")
                   ELSE NoRow
    IN  IF IsNone(by_tmdb) /\ movie.imdbId
        THEN get_plex_metadata(db, "imdb_id")
        ELSE by_tmdb

hours_since_last(db_record, now) ==
    now - last_search_time(db_record)

\* The sweep's test with "<= 24" in place of "< 24".
SweepCandidateStrict(db_record, now) ==
    ~(hours_since_last(db_record, now) <= CooldownHours)

\* The sweep keeps the record as a search candidate: not "hours_since_last
\* < 24".
SweepCandidate(db_record, now) ==
    ~(hours_since_last(db_record, now) < CooldownHours)

\* mark_movie_as_searched(movie) at hour now: the row found under any of the
\* movie's identifiers is stamped, else a row is inserted.
mark_movie_as_searched(movie, db, now) ==
    LET ids == {k \in IdKinds :
                  \/ k = "rating_key" /\ movie.ratingKey
                  \/ k = "imdb_id" /\ movie.imdbId
                  \/ k = "tmdb_id" /\ movie.tmdbId}
    IN  [keys |-> IF db.keys \cap ids # {}
                  THEN (db.keys \cap {"rating_key"}) \cup
                       (ids \ {"rating_key"})
                  ELSE ids,
         last_radarr_search |-> [kind |-> "iso", t |-> now]]

\* ------------------------------------------- the plex_metadata table, rows
\* Most rows of the table.
MaxRows == 2

\* The identifiers of a movie dict handed to the cache; "" stands for None
\* or a missing key.
CacheMovies ==
    [ratingKey : {"", "r1"}, imdbId : {"", "tt1"}, tmdbId : {"", "5"}]

\* WHERE rating_key = ? OR imdb_id = ? OR tmdb_id = ?, with a condition for
\* every identifier that is given: the positions of the rows selected.
SelectRows(rows, rating_key, imdb_id, tmdb_id) ==
    {n \in DOMAIN rows :
        \/ rating_key # "" /\ rows[n].rating_key = rating_key
        \/ imdb_id # "" /\ rows[n].imdb_id = imdb_id
        \/ tmdb_id # "" /\ rows[n].tmdb_id = tmdb_id}

\* The identifiers the rows of the table hold, column by column.
Identifiers(rows) ==
    {[column |-> "rating_key", value |-> rows[n].rating_key] :
        n \in {k \in DOMAIN rows : rows[k].rating_key # ""}}
    \cup {[column |-> "imdb_id", value |-> rows[n].imdb_id] :
        n \in {k \in DOMAIN rows : rows[k].imdb_id # ""}}
    \cup {[column |-> "tmdb_id", value |-> rows[n].tmdb_id] :
        n \in {k \in DOMAIN rows : rows[k].tmdb_id # ""}}

\* get_plex_metadata called with the one identifier id finds a row.
Found(rows, id) ==
    SelectRows(rows,
               IF id.column = "rating_key" THEN id.value ELSE "",
               IF id.column = "imdb_id" THEN id.value ELSE "",
               IF id.column = "tmdb_id" THEN id.value ELSE "") # {}

\* The table after initialize_database(); stored: the identifiers that rows
\* have been stored with so far.
CacheInit ==
    /\ LockInit
    /\ gate = GateOff
    /\ EngineOff
    /\ inp = <<>>
    /\ out = [rows |-> <<>>, stored |-> {}]

\* save_plex_metadata(movie): INSERT ... ON CONFLICT(rating_key) DO UPDATE
\* SET imdb_id, tmdb_id, title, year.
CallSave_plex_metadata(movie) ==
    LET hit == {n \in DOMAIN out.rows :
                   /\ movie.ratingKey # ""
                   /\ out.rows[n].rating_key = movie.ratingKey}
        rows == IF hit # {}
                THEN [n \in DOMAIN out.rows |->
                        IF n \in hit
                        THEN [out.rows[n] EXCEPT
                                 !.imdb_id = movie.imdbId,
                                 !.tmdb_id = movie.tmdbId]
                        ELSE out.rows[n]]
                ELSE Append(out.rows,
                            [rating_key |-> movie.ratingKey,
                             imdb_id |-> movie.imdbId,
                             tmdb_id |-> movie.tmdbId,
                             last_radarr_search |-> FALSE,
                             last_processed |-> FALSE])
    IN  /\ hit # {} \/ Len(out.rows) < MaxRows
        /\ out' = [rows |-> rows,
                   stored |-> out.stored \cup Identifiers(rows)]
        /\ UNCHANGED <<lockVars, gate, engineVars, inp>>

\* mark_movie_as_searched / mark_movie_as_processed (column the timestamp
\* column): the row fetchone() returns of those selected under any of the
\* movie's identifiers gets the movie's imdb_id and tmdb_id and the
\* timestamp; with no row selected a row is inserted.  The tables the call
\* can leave.
MarkMovie(movie, column) ==
    LET sel == SelectRows(out.rows, movie.ratingKey, movie.imdbId,
                          movie.tmdbId)
        new == [rating_key |-> movie.ratingKey,
                imdb_id |-> movie.imdbId,
                tmdb_id |-> movie.tmdbId,
                last_radarr_search |-> column = "last_radarr_search",
                last_processed |-> column = "last_processed"]
    IN  IF sel # {}
        THEN {[out.rows EXCEPT ![n] =
                  [@ EXCEPT !.imdb_id = movie.imdbId,
                            !.tmdb_id = movie.tmdbId,
                            ![column] = TRUE]] : n \in sel}
        ELSE {Append(out.rows, new)}

CallMark_movie_as_searched(movie) ==
    /\ \E rows \in MarkMovie(movie, "last_radarr_search") :
          /\ Len(rows) <= MaxRows
          /\ out' = [rows |-> rows,
                     stored |-> out.stored \cup Identifiers(rows)]
    /\ UNCHANGED <<lockVars, gate, engineVars, inp>>

CallMark_movie_as_processed(movie) ==
    /\ \E rows \in MarkMovie(movie, "last_processed") :
          /\ Len(rows) <= MaxRows
          /\ out' = [rows |-> rows,
                     stored |-> out.stored \cup Identifiers(rows)]
    /\ UNCHANGED <<lockVars, gate, engineVars, inp>>

CacheNext ==
    \/ \E movie \in CacheMovies : CallSave_plex_metadata(movie)
    \/ \E movie \in CacheMovies : CallMark_movie_as_searched(movie)
    \/ \E movie \in CacheMovies : CallMark_movie_as_processed(movie)

CacheSpec ==
    CacheInit /\ [][CacheNext]_vars

\* ------------------------------------------- should_trigger_search, called
NoResult ==
    [done |-> FALSE, ret |-> FALSE]

TriggerInit ==
    /\ LockInit
    /\ gate = GateOff
    /\ EngineOff
    /\ inp \in [movie : Movies, db : CacheRows, now : {MaxHour - 1}]
    /\ out = NoResult

CallShouldTrigger ==
    /\ ~out.done
    /\ out' = [done |-> TRUE,
               ret |-> should_trigger_search(inp.movie, inp.db, inp.now)]
    /\ UNCHANGED <<lockVars, gate, engineVars, inp>>

\* The caller takes the answer; the next call is made an hour later.
CallAgain ==
    /\ out.done
    /\ inp.now < MaxHour
    /\ inp' = [inp EXCEPT !.now = @ + 1]
    /\ out' = NoResult
    /\ UNCHANGED <<lockVars, gate, engineVars>>

TriggerNext ==
    \/ CallShouldTrigger
    \/ CallAgain

TriggerSpec ==
    TriggerInit /\ [][TriggerNext]_vars

\* ------------------------------------------- sweeps of one record, in time
\* check: the cooldown test the sweep made at the present hour, with the age
\* of the timestamp it found (capped at CooldownHours; -1: none, -2:
\* unparsable).  pending: the record is a candidate of the running sweep.
\* count, at, gap: the sweep-triggered searches so far (counted up to 2), the
\* hour of the last one, the shortest distance between two of them (capped
\* at CooldownHours + 1).
NoCheck ==
    [made |-> FALSE, age |-> -1, candidate |-> FALSE]

NoSearches ==
    [check |-> NoCheck, pending |-> FALSE, count |-> 0, at |-> 0,
     gap |-> CooldownHours + 1]

\* The least of two numbers.
Least(a, b) ==
    IF a <= b THEN a ELSE b

\* A library record (it has a tmdbId) carrying the upgrade tag, below the
\* size threshold; its cache row, if any, was written by earlier runs.
CooldownInit ==
    /\ LockInit
    /\ gate = GateOff
    /\ EngineOff
    /\ inp \in [movie : [ratingKey : {FALSE}, imdbId : BOOLEAN,
                          tmdbId : {TRUE}],
                 db : {NoRow} \cup
                      [keys : {{"tmdb_id"}, {"imdb_id", "tmdb_id"},
                               {"rating_key", "imdb_id"}},
                       last_radarr_search :
                           {[kind |-> "null", t |-> 0],
                            [kind |-> "bad", t |-> 0],
                            [kind |-> "iso", t |-> 0]}],
                 now : {0}]
    /\ out = NoSearches

\* Phase 2 of a sweep reaches the record: lookup and cooldown test.
SweepCheck ==
    /\ ~out.pending
    /\ ~out.check.made
    /\ LET db_record == SweepLookup(inp.movie, inp.db)
           last == db_record.last_radarr_search
           age == IF IsNone(db_record) \/ last.kind = "null" THEN -1
                  ELSE IF last.kind = "bad" THEN -2
                  ELSE Least(hours_since_last(db_record, inp.now),
                             CooldownHours)
           candidate == SweepCandidate(db_record, inp.now)
       IN  out' = [out EXCEPT
               !.check = [made |-> TRUE, age |-> age,
                          candidate |-> candidate],
               !.pending = candidate]
    /\ UNCHANGED <<lockVars, gate, engineVars, inp>>

\* The search loop reaches the candidate, or ends before it (go = FALSE: a
\* limit).  A trigger that succeeds is followed by mark_movie_as_searched.
SweepSearch(go, trigOk) ==
    /\ out.pending
    /\ LET searched == go /\ trigOk
       IN  /\ inp' = IF searched
                     THEN [inp EXCEPT !.db =
                              mark_movie_as_searched(inp.movie, inp.db,
                                                     inp.now)]
                     ELSE inp
           /\ out' = IF searched
                     THEN [check |-> NoCheck,
                           pending |-> FALSE,
                           count |-> Least(out.count + 1, 2),
                           at |-> inp.now,
                           gap |-> IF out.count = 0 THEN out.gap
                                   ELSE Least(out.gap, inp.now - out.at)]
                     ELSE [out EXCEPT !.pending = FALSE, !.check = NoCheck]
    /\ UNCHANGED <<lockVars, gate, engineVars>>

\* An hour passes.
Tick ==
    /\ inp.now < MaxHour
    /\ inp' = [inp EXCEPT !.now = @ + 1]
    /\ out' = [out EXCEPT !.check = NoCheck]
    /\ UNCHANGED <<lockVars, gate, engineVars>>

CooldownNext ==
    \/ SweepCheck
    \/ \E go, trigOk \in BOOLEAN : SweepSearch(go, trigOk)
    \/ Tick

CooldownSpec ==
    CooldownInit /\ [][CooldownNext]_vars

\* ------------------------------------- the sweep's order of its candidates
\* Most candidates of one sweep.
MaxCand == 3

\* last_search_time of a candidate: datetime.min or an hour at least 24 hours
\* back, counted from the oldest.
CandTimes == {datetime_min} \cup 0..1

\* sizeOnDisk of a candidate, below the threshold.
CandSizes == 0..1

\* The tuples (movie, size_bytes, last_search_time) in the order of
\* movies_from_radarr; id stands for the movie.
CandLists ==
    {[n \in 1..k |-> [id |-> n, size_bytes |-> z[n],
                      last_search_time |-> t[n]]] :
        k \in 0..MaxCand, z \in [1..MaxCand -> CandSizes],
        t \in [1..MaxCand -> CandTimes]}

\* key(x) < key(y) for key = lambda x: (x[2], x[1]).
KeyLess(x, y) ==
    \/ x.last_search_time < y.last_search_time
    \/ /\ x.last_search_time = y.last_search_time
       /\ x.size_bytes < y.size_bytes

\* The list left as it was found.
Unsorted(sorted, x) ==
    Append(sorted, x)

\* One step of the stable sort: x goes behind every element whose key is
\* not greater than its own.
Insert(sorted, x) ==
    LET k == Cardinality({j \in DOMAIN sorted : ~KeyLess(x, sorted[j])})
    IN  SubSeq(sorted, 1, k) \o <<x>> \o SubSeq(sorted, k + 1, Len(sorted))

RECURSIVE SortByKey(_, _)
\* search_candidates.sort(key=lambda x: (x[2], x[1])), sorted the part
\* already in order.
SortByKey(search_candidates, sorted) ==
    IF search_candidates = <<>> THEN sorted
    ELSE SortByKey(Tail(search_candidates),
                   Insert(sorted, Head(search_candidates)))

NotSwept ==
    [pc |-> "sort", search_candidates |-> <<>>, i |-> 0, attempted |-> <<>>,
     daily_search_count |-> 0]

PrioInit ==
    /\ LockInit
    /\ gate = GateOff
    /\ EngineOff
    /\ inp \in [search_candidates : CandLists,
                 per_run_search_limit :
                     {[set |-> FALSE, val |-> 0]} \cup
                         [set : {TRUE}, val : 0..(MaxLimit + 1)],
                 global_daily_search_limit : Limits,
                 daily_search_count : 0..MaxLimit]
    /\ out = NotSwept

\* "global_daily_search_limit is not None and daily_search_count >= limit"
\* of the sweep under check.
PrioDailyReached(daily_search_count) ==
    /\ inp.global_daily_search_limit.set
    /\ daily_search_count >= inp.global_daily_search_limit.val

\* The sort and the tests before the loop; "per_run_search_limit <= 0"
\* raises TypeError when the limit is None.
PrioSort ==
    /\ out.pc = "sort"
    /\ LET sorted == SortByKey(inp.search_candidates, <<>>)
           none == \/ PrioDailyReached(inp.daily_search_count)
                   \/ inp.per_run_search_limit.val <= 0
       IN  out' = IF ~inp.per_run_search_limit.set
                  THEN [out EXCEPT !.pc = "raised",
                                   !.search_candidates = sorted]
                  ELSE [out EXCEPT
                           !.pc = "loop",
                           !.search_candidates =
                               IF none THEN <<>> ELSE sorted,
                           !.daily_search_count = inp.daily_search_count]
    /\ UNCHANGED <<lockVars, gate, engineVars, inp>>

\* The loop goes on to its next candidate.
PrioGoesOn ==
    /\ out.i < Len(out.search_candidates)
    /\ out.i < inp.per_run_search_limit.val
    /\ ~PrioDailyReached(out.daily_search_count)

\* One pass of the loop: trigger_search(movie_id).
PrioItem(trigOk) ==
    /\ out.pc = "loop"
    /\ PrioGoesOn
    /\ out' = [out EXCEPT
           !.i = @ + 1,
           !.attempted = Append(@, out.search_candidates[out.i + 1].id),
           !.daily_search_count = IF trigOk THEN @ + 1 ELSE @]
    /\ UNCHANGED <<lockVars, gate, engineVars, inp>>

\* The loop ends or breaks.
PrioEnd ==
    /\ out.pc = "loop"
    /\ ~PrioGoesOn
    /\ out' = [out EXCEPT !.pc = "done"]
    /\ UNCHANGED <<lockVars, gate, engineVars, inp>>

PrioNext ==
    \/ PrioSort
    \/ \E trigOk \in BOOLEAN : PrioItem(trigOk)
    \/ PrioEnd

PrioSpec ==
    PrioInit /\ [][PrioNext]_vars

\* ------------------------------------------------------------- needs_update
\* The values a field of a movie dict may hold: those of its type, and None
\* for a missing key; for two fields also a value of another type with the
\* text of a value of the right type.
FieldValues ==
    [monitored |-> {PyTrue, PyFalse, PyNone},
     qualityProfileId |-> {[type |-> "int", text |-> "1"],
                           [type |-> "int", text |-> "2"],
                           [type |-> "str", text |-> "1"], PyNone},
     rootFolderPath |-> {[type |-> "str", text |-> "/movies/"],
                         [type |-> "str", text |-> "/films/"], PyNone},
     path |-> {[type |-> "str", text |-> "/movies/a"],
               [type |-> "str", text |-> "None"], PyNone},
     minimumAvailability |-> {[type |-> "str", text |-> "released"],
                              [type |-> "str", text |-> "announced"],
                              PyNone},
     searchForMovie |-> {PyNone, PyFalse}]

TagSets == SUBSET {"watchlist", "upgrade"}

MovieDicts ==
    [monitored : FieldValues.monitored,
     qualityProfileId : FieldValues.qualityProfileId,
     rootFolderPath : FieldValues.rootFolderPath,
     path : FieldValues.path,
     minimumAvailability : FieldValues.minimumAvailability,
     tags : TagSets,
     searchForMovie : FieldValues.searchForMovie]

\* Every checked field holds a value of its type.
WellFormed(movie) ==
    /\ movie.monitored.type = "bool"
    /\ movie.qualityProfileId.type = "int"
    /\ movie.rootFolderPath.type = "str"
    /\ movie.path.type = "str"
    /\ movie.minimumAvailability.type = "str"

\* The payload Y of a comparison: X with one field, or the tags, replaced.
ChangedDict ==
    [[inp.X EXCEPT ![inp.key] = inp.value] EXCEPT !.tags = inp.tags]

NotCompared ==
    [same |-> "none", changed |-> "none"]

UpdateInit ==
    /\ LockInit
    /\ gate = GateOff
    /\ EngineOff
    /\ \E X \in MovieDicts :
          \/ \E key \in DOMAIN FieldValues :
                \E value \in FieldValues[key] :
                   inp = [X |-> X, key |-> key, value |-> value,
                          tags |-> X.tags]
          \/ \E tags \in TagSets :
                inp = [X |-> X, key |-> "monitored",
                       value |-> X.monitored, tags |-> tags]
    /\ out = NotCompared

\* needs_update(X, X).
CallSame ==
    /\ out.same = "none"
    /\ out' = [out EXCEPT
           !.same = IF needs_update(inp.X, inp.X) THEN "True" ELSE "False"]
    /\ UNCHANGED <<lockVars, gate, engineVars, inp>>

\* needs_update(X, Y).
CallChanged ==
    /\ out.changed = "none"
    /\ out' = [out EXCEPT
           !.changed = IF needs_update(inp.X, ChangedDict)
                       THEN "True" ELSE "False"]
    /\ UNCHANGED <<lockVars, gate, engineVars, inp>>

UpdateNext ==
    \/ CallSame
    \/ CallChanged

UpdateSpec ==
    UpdateInit /\ [][UpdateNext]_vars

\* ---------------------------------------------------------- merge_watchlists
\* Longest watchlist of either source.
MaxLen == 2

\* The imdbId of a watchlist item as fetched: None, or an id as written by
\* the source, in any case and with surrounding blanks.
ImdbIds == {"None", "tt1", "TT1 ", "tt2"}

\* The ratingKey values of the personal watchlist.
RatingKeys == {"r1", "r2", "r3"}

\* (item.get("imdbId") or "").strip().lower()
Normalized(imdbId) ==
    CASE imdbId = "None" -> ""
      [] imdbId = "" -> ""
      [] imdbId = "tt1" -> "tt1"
      [] imdbId = "TT1 " -> "tt1"
      [] imdbId = "tt2" -> "tt2"

\* "if key" of a dict key: neither None nor the empty string.
Truthy(key) ==
    key # "None" /\ key # ""

\* Lists of get_personal_watchlist: every item has a ratingKey, and no two
\* items the same one (seen_keys).  id stands for the dict object.
PersonalLists ==
    {[n \in 1..k |-> [id |-> n, source |-> "personal", imdbId |-> f[n],
                      ratingKey |-> r[n]]] :
        k \in 0..MaxLen, f \in [1..MaxLen -> ImdbIds],
        r \in {q \in [1..MaxLen -> RatingKeys] :
                  \A a, b \in 1..MaxLen : a # b => q[a] # q[b]}}

\* Lists of get_friends_watchlist: the items have no ratingKey.
FriendsLists ==
    {[n \in 1..k |-> [id |-> n, source |-> "friends", imdbId |-> f[n],
                      ratingKey |-> "None"]] :
        k \in 0..MaxLen, f \in [1..MaxLen -> ImdbIds]}

\* "key in merged", merged a dict kept as the sequence of its entries.
InMerged(merged, key) ==
    \E n \in DOMAIN merged : merged[n].key = key

\* merged[key] = item in a dict that keeps one entry per key only by chance.
PutAppend(merged, key, item) ==
    Append(merged, [key |-> key, item |-> item])

\* merged.setdefault(key, item): the first item of a key stays.
PutIfAbsent(merged, key, item) ==
    IF InMerged(merged, key) THEN merged
    ELSE Append(merged, [key |-> key, item |-> item])

\* merged[key] = item: the entry of the key is replaced where it stands, a
\* new key is appended.
Put(merged, key, item) ==
    IF InMerged(merged, key)
    THEN [n \in DOMAIN merged |->
             IF merged[n].key = key THEN [key |-> key, item |-> item]
             ELSE merged[n]]
    ELSE Append(merged, [key |-> key, item |-> item])

\* The key the merge gives a personal item.
PersonalKey(item) ==
    IF Normalized(item.imdbId) # "" THEN Normalized(item.imdbId)
    ELSE item.ratingKey

RECURSIVE MergePersonal(_, _)
\* "for item in personal_list".
MergePersonal(personal_list, merged) ==
    IF personal_list = <<>> THEN merged
    ELSE LET item == Head(personal_list)
             key == PersonalKey(item)
         IN  MergePersonal(Tail(personal_list),
                           IF Truthy(key) THEN Put(merged, key, item)
                           ELSE merged)

\* The test of the friends loop with "imdb not in merged" left out.
FriendAddedAlways(imdb, merged) ==
    imdb # ""

\* "if imdb and imdb not in merged".
FriendAdded(imdb, merged) ==
    imdb # "" /\ ~InMerged(merged, imdb)

RECURSIVE MergeFriends(_, _)
\* "for item in friends_list".
MergeFriends(friends_list, merged) ==
    IF friends_list = <<>> THEN merged
    ELSE LET item == Head(friends_list)
             imdb == Normalized(item.imdbId)
         IN  MergeFriends(Tail(friends_list),
                          IF FriendAdded(imdb, merged)
                          THEN Put(merged, imdb, item)
                          ELSE merged)

\* merge_watchlists(personal_list, friends_list): list(merged.values()).
merge_watchlists(personal_list, friends_list) ==
    LET merged == MergeFriends(friends_list,
                               MergePersonal(personal_list, <<>>))
    IN  [n \in DOMAIN merged |-> merged[n].item]

NotMerged ==
    [done |-> FALSE, merged_list |-> <<>>]

MergeInit ==
    /\ LockInit
    /\ gate = GateOff
    /\ EngineOff
    /\ inp \in [personal_list : PersonalLists, friends_list : FriendsLists]
    /\ out = NotMerged

CallMerge ==
    /\ ~out.done
    /\ out' = [done |-> TRUE,
               merged_list |-> merge_watchlists(inp.personal_list,
                                                inp.friends_list)]
    /\ UNCHANGED <<lockVars, gate, engineVars, inp>>

MergeSpec ==
    MergeInit /\ [][CallMerge]_vars

\* ------------------------------------------- the sync loop, item by item
\* 1024 ** 3.
GiB == 1024 * 1024 * 1024

\* The tmdbId of a watchlist item as fetched: None, a number, a number
\* written with a blank, or a text that is no number.
TmdbIds == {"None", "5", " 5", "x"}

\* str(movie.get("tmdbId", "")).strip() if movie.get("tmdbId") else ""
TmdbText(tmdbId) ==
    CASE tmdbId = "None" -> ""
      [] tmdbId = "" -> ""
      [] tmdbId = "5" -> "5"
      [] tmdbId = " 5" -> "5"
      [] tmdbId = "7" -> "7"
      [] tmdbId = "x" -> "x"

\* int(tmdb_id) returns: the text is a number.
IsInt(tmdb_id) ==
    tmdb_id \in {"5", "7"}

\* A mutant of CanCreate: an item is created whatever its tmdbId.
CanCreateAlways(tmdb_id) ==
    TRUE

\* The create branch goes as far as its payload: "if not tmdb_id: continue"
\* is passed and int(tmdb_id) does not raise ValueError.
CanCreate(tmdb_id) ==
    tmdb_id # "" /\ IsInt(tmdb_id)

\* No library record ("radarr_movie = None").
NoMovie ==
    [id |-> 0, imdbId |-> "", tmdbId |-> "", tags |-> {}, sizeOnDisk |-> 0]

\* The records of the target library: imdbId "" when the record has none,
\* tmdbId the text of its number, sizeOnDisk in bytes.
LibraryMovies ==
    [id : {1}, imdbId : {"", "tt1", "tt2"}, tmdbId : {"5"},
     tags : {{}, {"watchlist"}, {"upgrade", "other"}},
     sizeOnDisk : {GiB - 1, GiB}]

\* The second record of a library of two.
OtherMovie ==
    [id |-> 2, imdbId |-> "tt2", tmdbId |-> "7", tags |-> {"other"},
     sizeOnDisk |-> GiB]

\* What get_all_movies returns: no record, one, or two.
Libraries ==
    {<<>>} \cup {<<m>> : m \in LibraryMovies}
           \cup {<<m, OtherMovie>> : m \in LibraryMovies}

RECURSIVE BuildIndex(_, _)
\* "for movie in movies: ... if imdb: index[imdb] = movie".
BuildIndex(movies, index) ==
    IF movies = <<>> THEN index
    ELSE LET movie == Head(movies)
             imdb == Normalized(movie.imdbId)
         IN  BuildIndex(Tail(movies),
                        IF imdb # "" THEN Put(index, imdb, movie)
                        ELSE index)

\* build_radarr_index(): the dict, kept as the sequence of its entries.
build_radarr_index(movies) ==
    BuildIndex(movies, <<>>)

\* radarr_index.get(imdb_id).
IndexGet(radarr_index, imdb_id) ==
    IF InMerged(radarr_index, imdb_id)
    THEN radarr_index[CHOOSE n \in DOMAIN radarr_index :
                         radarr_index[n].key = imdb_id].item
    ELSE NoMovie

\* "for m in radarr_index.values(): if str(m.get("tmdbId", "")).strip() ==
\* tmdb_id: radarr_movie = m; break".
IndexScan(radarr_index, tmdb_id) ==
    LET hits == {n \in DOMAIN radarr_index :
                    radarr_index[n].item.tmdbId = tmdb_id}
    IN  IF hits = {} THEN NoMovie
        ELSE radarr_index[CHOOSE n \in hits : \A k \in hits : n <= k].item

\* The resolution of a watchlist item against the index.
Resolve(movie, radarr_index) ==
    LET imdb_id == Normalized(movie.imdbId)
        tmdb_id == TmdbText(movie.tmdbId)
    IN  IF imdb_id # "" THEN IndexGet(radarr_index, imdb_id)
        ELSE IF tmdb_id # "" THEN IndexScan(radarr_index, tmdb_id)
        ELSE NoMovie

\* movie_size_gb = size_bytes / (1024 ** 3) if size_bytes else 0: the
\* quotient, which the float holds exactly for every size below 2 ** 53.
movie_size_gb(size_bytes) ==
    [num |-> size_bytes, den |-> GiB]

\* movie_size_gb <= min_upgrade_gb in place of "<".
eligible_at_threshold(size_bytes, min_upgrade_gb) ==
    movie_size_gb(size_bytes).num <= min_upgrade_gb * GiB

\* eligible_for_upgrade = (movie_size_gb < min_upgrade_gb).
eligible_for_upgrade(size_bytes, min_upgrade_gb) ==
    LET q == movie_size_gb(size_bytes)
    IN  q.num < min_upgrade_gb * q.den

\* The items of the merged list: the first any item, the second one of two.
CombinedLists ==
    {<<m>> : m \in [imdbId : {"None", "tt1", "TT1 "}, tmdbId : TmdbIds]}
    \cup {<<m, n>> : m \in [imdbId : {"None", "tt1", "TT1 "},
                            tmdbId : TmdbIds],
                     n \in {[imdbId |-> "tt2", tmdbId |-> "7"],
                            [imdbId |-> "None", tmdbId |-> "None"]}}

NotStarted ==
    [pc |-> "idle", radarr_index |-> <<>>, run_search_count |-> 0,
     results |-> <<>>]

\* A sync run over a merged list and a library, with min_file_size_gb 1,
\* no daily limit and a per-run limit.
PassInit ==
    /\ LockInit
    /\ gate = GateOff
    /\ EngineOff
    /\ inp \in [combined_list : CombinedLists, library : Libraries,
                dry_run : BOOLEAN, per_run_search_limit : 0..MaxLimit,
                min_upgrade_gb : {1}]
    /\ out = NotStarted

\* process_watchlist up to its loop: build_radarr_index().
PassStart ==
    /\ out.pc = "idle"
    /\ out' = [out EXCEPT
           !.pc = "items",
           !.radarr_index = build_radarr_index(inp.library)]
    /\ UNCHANGED <<lockVars, gate, engineVars, inp>>

\* One pass of "for movie in combined_list".  friend_tag_id: the item has a
\* friend tag; searched_before: the cache row of the item has a
\* last_radarr_search; addOk, trigOk: the outcomes of add_movie and
\* trigger_search (that of update_movie changes the cache only).  The
\* result of the pass: the record the item resolved to, the requests sent,
\* the tags of the payload built.
SyncPass(friend_tag_id, searched_before, addOk, trigOk) ==
    /\ out.pc = "items"
    /\ Len(out.results) < Len(inp.combined_list)
    /\ LET movie == inp.combined_list[Len(out.results) + 1]
           tmdb_id == TmdbText(movie.tmdbId)
           radarr_movie == Resolve(movie, out.radarr_index)
           found == radarr_movie # NoMovie
           skip == found /\ "watchlist" \in radarr_movie.tags
           new == ~found
           existing == found /\ ~skip
           \* create branch
           built == new /\ CanCreate(tmdb_id)
           post == built /\ ~inp.dry_run
           added == post /\ addOk
           \* existing branch
           eligible == eligible_for_upgrade(radarr_movie.sizeOnDisk,
                                            inp.min_upgrade_gb)
           tags == IF built THEN AddTags(friend_tag_id)
                   ELSE IF existing
                   THEN UpdateTags(radarr_movie.tags, eligible,
                                   friend_tag_id)
                   ELSE {}
           put == existing /\ ~inp.dry_run
           \* search admission
           limitOk == ~(out.run_search_count >= inp.per_run_search_limit)
           admit == \/ added /\ limitOk
                    \/ /\ existing
                       /\ ~inp.dry_run
                       /\ eligible
                       /\ ~searched_before
                       /\ limitOk
           searched == admit /\ trigOk
           calls == {c \in {"create", "update", "search"} :
                        \/ c = "create" /\ post
                        \/ c = "update" /\ put
                        \/ c = "search" /\ admit}
           count == IF searched THEN out.run_search_count + 1
                    ELSE out.run_search_count
       IN  out' = [out EXCEPT
               !.run_search_count = count,
               !.results = Append(@, [radarr_movie |-> radarr_movie.id,
                                      skipped |-> skip,
                                      calls |-> calls,
                                      tags |-> tags,
                                      run_search_count |-> count])]
    /\ UNCHANGED <<lockVars, gate, engineVars, inp>>

\* The loop is over.
PassEnd ==
    /\ out.pc = "items"
    /\ Len(out.results) = Len(inp.combined_list)
    /\ out' = [out EXCEPT !.pc = "done"]
    /\ UNCHANGED <<lockVars, gate, engineVars, inp>>

PassNext ==
    \/ PassStart
    \/ \E friend_tag_id, searched_before, addOk, trigOk \in BOOLEAN :
          SyncPass(friend_tag_id, searched_before, addOk, trigOk)
    \/ PassEnd

PassSpec ==
    PassInit /\ [][PassNext]_vars

\* ------------------------------------------- the sync loop, library listed
\* get_all_movies(): the records of the library, or [] when the request
\* fails (listOk: _make_request returns the list).
get_all_movies(listOk, library) ==
    IF listOk THEN library ELSE <<>>

\* process_watchlist up to its loop: build_radarr_index() indexes what
\* get_all_movies() returns.
ListStart(listOk) ==
    /\ out.pc = "idle"
    /\ out' = [out EXCEPT
           !.pc = "items",
           !.radarr_index =
               build_radarr_index(get_all_movies(listOk, inp.library))]
    /\ UNCHANGED <<lockVars, gate, engineVars, inp>>

ListNext ==
    \/ \E listOk \in BOOLEAN : ListStart(listOk)
    \/ \E friend_tag_id, searched_before, addOk, trigOk \in BOOLEAN :
          SyncPass(friend_tag_id, searched_before, addOk, trigOk)
    \/ PassEnd

\* Sync runs whose listing of the library may fail.
ListSpec ==
    PassInit /\ [][ListNext]_vars

\* ----------------------------------------------------- the size threshold
\* min_size_bytes = min_size_gb * (1024 ** 3).
min_size_bytes(min_size_gb) ==
    min_size_gb * GiB

\* A mutant of MeetsThreshold: a size at the threshold does not meet it.
AboveThreshold(size_bytes, min_size_gb) ==
    size_bytes > min_size_bytes(min_size_gb)

\* The sweep's test "size_bytes >= min_size_bytes" of phase 1 and phase 2.
MeetsThreshold(size_bytes, min_size_gb) ==
    size_bytes >= min_size_bytes(min_size_gb)

\* new_tags of remove_tag_from_movie(movie, tag_id).
remove_tag_from_movie(tags, tag_id) ==
    tags \ {tag_id}

NoDecision ==
    [done |-> FALSE, yes |-> FALSE, tags |-> {}]

\* A library record: its sizeOnDisk around one GiB (0: no file), its tags;
\* min_file_size_gb is 0 (the default) or 1.
SizeInit ==
    /\ LockInit
    /\ gate = GateOff
    /\ EngineOff
    /\ inp \in [sizeOnDisk : {0, GiB - 1, GiB, GiB + 1},
                min_file_size_gb : 0..1,
                tags : SUBSET {"watchlist", "upgrade", "other"}]
    /\ out = [sync |-> NoDecision, clear |-> NoDecision,
              consider |-> NoDecision]

\* The existing branch of the sync loop, for a record that is not skipped:
\* eligible_for_upgrade and the tags of the payload.
CallSyncTags(friend_tag_id) ==
    /\ ~out.sync.done
    /\ "watchlist" \notin inp.tags
    /\ LET eligible == eligible_for_upgrade(inp.sizeOnDisk,
                                            inp.min_file_size_gb)
       IN  out' = [out EXCEPT !.sync =
               [done |-> TRUE, yes |-> eligible,
                tags |-> UpdateTags(inp.tags, eligible, friend_tag_id)]]
    /\ UNCHANGED <<lockVars, gate, engineVars, inp>>

\* Phase 1 of the sweep for a record carrying the upgrade tag: the tag is
\* to be cleared, and the tags of the payload remove_tag_from_movie sends.
CallSweepClear ==
    /\ ~out.clear.done
    /\ "upgrade" \in inp.tags
    /\ LET yes == MeetsThreshold(inp.sizeOnDisk, inp.min_file_size_gb)
       IN  out' = [out EXCEPT !.clear =
               [done |-> TRUE, yes |-> yes,
                tags |-> IF yes
                         THEN remove_tag_from_movie(inp.tags, "upgrade")
                         ELSE inp.tags]]
    /\ UNCHANGED <<lockVars, gate, engineVars, inp>>

\* Phase 2 of the sweep for the record: it goes on to the cooldown test.
CallSweepConsider ==
    /\ ~out.consider.done
    /\ "upgrade" \in inp.tags
    /\ out' = [out EXCEPT !.consider =
           [done |-> TRUE,
            yes |-> ~MeetsThreshold(inp.sizeOnDisk, inp.min_file_size_gb),
            tags |-> inp.tags]]
    /\ UNCHANGED <<lockVars, gate, engineVars, inp>>

SizeNext ==
    \/ \E friend_tag_id \in BOOLEAN : CallSyncTags(friend_tag_id)
    \/ CallSweepClear
    \/ CallSweepConsider

SizeSpec ==
    SizeInit /\ [][SizeNext]_vars

\* ------------------------------------------------ the phases of one sweep
\* movies_from_radarr of one sweep: records carrying the upgrade tag, with
\* or without an id (0), of a size around the threshold of one GiB, searched
\* never or within the last 24 hours according to the cache.
SweepLists ==
    [1..MaxLen -> [id : 0..1, sizeOnDisk : {GiB - 1, GiB},
                   cached : {"never", "recent"}]]

\* pc: "phase1", "phase2" (k: the position the loop stands at), "loop" (the
\* search loop, i: its index), "done".  removal: the positions of the
\* records remove_tag_from_movie was called for, cleared: those whose upgrade
\* tag it cleared; searched: those trigger_search was called for.
NotPhased ==
    [pc |-> "phase1", k |-> 1, i |-> 0, removal |-> {}, cleared |-> {},
     search_candidates |-> <<>>, searched |-> {}]

PhaseInit ==
    /\ LockInit
    /\ gate = GateOff
    /\ EngineOff
    /\ inp \in [movies_from_radarr : SweepLists,
                 min_file_size_gb : {1},
                 dry_run : BOOLEAN,
                 per_run_search_limit : 1..(MaxLimit + 1)]
    /\ out = NotPhased

\* One pass of the loop of phase 1 (rmOk: the PUT of remove_tag_from_movie
\* succeeds).
Phase1Item(rmOk) ==
    /\ out.pc = "phase1"
    /\ out.k <= MaxLen
    /\ LET movie == inp.movies_from_radarr[out.k]
           call == /\ movie.id # 0
                   /\ MeetsThreshold(movie.sizeOnDisk, inp.min_file_size_gb)
                   /\ ~inp.dry_run
       IN  out' = [out EXCEPT
               !.k = @ + 1,
               !.removal = IF call THEN @ \cup {out.k} ELSE @,
               !.cleared = IF call /\ rmOk THEN @ \cup {out.k} ELSE @]
    /\ UNCHANGED <<lockVars, gate, engineVars, inp>>

\* Phase 1 is through: phase 2 starts.
Phase1End ==
    /\ out.pc = "phase1"
    /\ out.k > MaxLen
    /\ out' = [out EXCEPT !.pc = "phase2", !.k = 1]
    /\ UNCHANGED <<lockVars, gate, engineVars, inp>>

\* One pass of the loop of phase 2: the record is skipped without an id, at
\* or above the threshold, or searched less than 24 hours ago, else the
\* tuple (movie, size_bytes, last_search_time) is appended.
Phase2Item ==
    /\ out.pc = "phase2"
    /\ out.k <= MaxLen
    /\ LET movie == inp.movies_from_radarr[out.k]
           skip == \/ movie.id = 0
                   \/ MeetsThreshold(movie.sizeOnDisk, inp.min_file_size_gb)
                   \/ movie.cached = "recent"
       IN  out' = [out EXCEPT
               !.k = @ + 1,
               !.search_candidates =
                   IF skip THEN @
                   ELSE Append(@, [id |-> out.k,
                                   size_bytes |-> movie.sizeOnDisk,
                                   last_search_time |-> datetime_min])]
    /\ UNCHANGED <<lockVars, gate, engineVars, inp>>

\* Phase 2 is through: search_candidates.sort(...), and the list is emptied
\* when "per_run_search_limit <= 0".
Phase2End ==
    /\ out.pc = "phase2"
    /\ out.k > MaxLen
    /\ out' = [out EXCEPT
          !.pc = "loop",
          !.search_candidates =
              IF inp.per_run_search_limit <= 0 THEN <<>>
              ELSE SortByKey(out.search_candidates, <<>>)]
    /\ UNCHANGED <<lockVars, gate, engineVars, inp>>

\* The search loop goes on to its next candidate.
PhaseGoesOn ==
    /\ out.i < Len(out.search_candidates)
    /\ out.i < inp.per_run_search_limit

\* One pass of the search loop: trigger_search under "if not dry_run".
PhaseSearch ==
    /\ out.pc = "loop"
    /\ PhaseGoesOn
    /\ out' = [out EXCEPT
          !.i = @ + 1,
          !.searched = IF inp.dry_run THEN @
                       ELSE @ \cup {out.search_candidates[out.i + 1].id}]
    /\ UNCHANGED <<lockVars, gate, engineVars, inp>>

\* The search loop ends or breaks.
PhaseEnd ==
    /\ out.pc = "loop"
    /\ ~PhaseGoesOn
    /\ out' = [out EXCEPT !.pc = "done"]
    /\ UNCHANGED <<lockVars, gate, engineVars, inp>>

PhaseNext ==
    \/ \E rmOk \in BOOLEAN : Phase1Item(rmOk)
    \/ Phase1End
    \/ Phase2Item
    \/ Phase2End
    \/ PhaseSearch
    \/ PhaseEnd

PhaseSpec ==
    PhaseInit /\ [][PhaseNext]_vars

\* -------------------------------------------- the tags of a library record
\* One library record under a sync run and a sweep of two processes.  tags:
\* the tags the library holds for it; sync, sweep: the job has fetched the
\* library ("has") and the tags of the record in what it fetched; payload:
\* the tags of the last payload the sync job built; removed: the tags other
\* than the upgrade tag that a write of a job has taken from the record.
TagsIdle ==
    [has |-> FALSE, tags |-> {}]

TagsInit ==
    /\ LockInit
    /\ gate = GateOff
    /\ EngineOff
    /\ inp \in [sizeOnDisk : {GiB - 1, GiB}, min_file_size_gb : {1},
                friend_tag_id : BOOLEAN]
    /\ \E tags \in SUBSET {"watchlist", "upgrade", "other"} :
          out = [tags |-> tags, sync |-> TagsIdle, sweep |-> TagsIdle,
                 payload |-> {"watchlist"}, removed |-> {}]

\* process_watchlist: build_radarr_index() fetches the record.
TagsSyncIndex ==
    /\ ~out.sync.has
    /\ out' = [out EXCEPT !.sync = [has |-> TRUE, tags |-> out.tags]]
    /\ UNCHANGED <<lockVars, gate, engineVars, inp>>

\* The pass of the sync loop for the item of the record: skipped when the
\* fetched record carries the watchlist tag, else update_movie with the
\* payload built from the fetched record (updOk: the PUT succeeds).
TagsSyncUpdate(updOk) ==
    /\ out.sync.has
    /\ LET skip == "watchlist" \in out.sync.tags
           eligible == eligible_for_upgrade(inp.sizeOnDisk,
                                            inp.min_file_size_gb)
           tags == UpdateTags(out.sync.tags, eligible, inp.friend_tag_id)
           radarr_movie == [LibraryMovie(Absent) EXCEPT
                               !.tags = out.sync.tags]
           payload == [radarr_movie EXCEPT !.tags = tags,
                                           !.searchForMovie = PyFalse]
           put == ~skip /\ needs_update(radarr_movie, payload) /\ updOk
       IN  out' = [out EXCEPT
               !.sync = TagsIdle,
               !.payload = IF skip THEN @ ELSE tags,
               !.tags = IF put THEN tags ELSE @,
               !.removed = IF put
                           THEN @ \cup ((out.tags \ tags) \ {"upgrade"})
                           ELSE @]
    /\ UNCHANGED <<lockVars, gate, engineVars, inp>>

\* job_upgrade: get_all_movies() fetches the record, which carries the
\* upgrade tag.
TagsSweepList ==
    /\ ~out.sweep.has
    /\ "upgrade" \in out.tags
    /\ out' = [out EXCEPT !.sweep = [has |-> TRUE, tags |-> out.tags]]
    /\ UNCHANGED <<lockVars, gate, engineVars, inp>>

\* Phase 1 of the sweep for the record: at or above the threshold,
\* remove_tag_from_movie sends the fetched record with the upgrade tag
\* taken out of its tags (rmOk: the PUT succeeds).
TagsSweepClear(rmOk) ==
    /\ out.sweep.has
    /\ LET tags == remove_tag_from_movie(out.sweep.tags, "upgrade")
           put == /\ MeetsThreshold(inp.sizeOnDisk, inp.min_file_size_gb)
                  /\ rmOk
       IN  out' = [out EXCEPT
               !.sweep = TagsIdle,
               !.tags = IF put THEN tags ELSE @,
               !.removed = IF put
                           THEN @ \cup ((out.tags \ tags) \ {"upgrade"})
                           ELSE @]
    /\ UNCHANGED <<lockVars, gate, engineVars, inp>>

TagsNext ==
    \/ TagsSyncIndex
    \/ \E updOk \in BOOLEAN : TagsSyncUpdate(updOk)
    \/ TagsSweepList
    \/ \E rmOk \in BOOLEAN : TagsSweepClear(rmOk)

TagsSpec ==
    TagsInit /\ [][TagsNext]_vars

\* ------------------------------------------------------- the daily counter
\* The counter file as a run may find it: missing, unreadable, or written on
\* some date with some count.
CounterFiles ==
    {[date |-> 0, count |-> 0], [date |-> -1, count |-> 0]}
        \cup [date : 1..MaxDay, count : 0..MaxCount]

NoCall ==
    [op |-> "none", file |-> [date |-> 0, count |-> 0], today |-> 0,
     ret |-> 0]

CounterInit ==
    /\ LockInit
    /\ gate = GateOff
    /\ config = [max_daily_searches |-> [set |-> FALSE, val |-> 0],
                 searches_per_run |-> [set |-> FALSE, val |-> 0],
                 user_tagging |-> FALSE]
    /\ plex_author_id = [i \in Items |-> FALSE]
    /\ radarr = [i \in Items |-> Absent]
    /\ last_radarr_search = [i \in Items |-> "never"]
    /\ daily_search_file \in CounterFiles
    /\ today \in 1..MaxDay
    /\ tag_registry = FALSE
    /\ tag_cache = "none"
    /\ sync = SyncIdle
    /\ sweep = SweepIdle
    /\ obs = ObsInit
    /\ inp = <<>>
    /\ out = NoCall

\* A call of read_daily_search_count(file_path).
CallRead ==
    /\ out' = [op |-> "read", file |-> daily_search_file, today |-> today,
               ret |-> read_daily_search_count]
    /\ UNCHANGED <<lockVars, gate, engineVars, inp>>

\* A call of increment_daily_search_count(file_path).
CallIncrement ==
    /\ read_daily_search_count < MaxCount
    /\ daily_search_file' = increment_daily_search_count
    /\ out' = [op |-> "increment", file |-> daily_search_file,
               today |-> today, ret |-> read_daily_search_count + 1]
    /\ UNCHANGED <<lockVars, gate, config, plex_author_id, radarr,
                   last_radarr_search, today, tag_registry, tag_cache, sync,
                   sweep, obs, inp>>

\* A call of save_daily_search_count(file_path, count), as at the end of a
\* run.
CallSave(count) ==
    /\ daily_search_file' = save_daily_search_count(count)
    /\ out' = [op |-> "save", file |-> daily_search_file, today |-> today,
               ret |-> count]
    /\ UNCHANGED <<lockVars, gate, config, plex_author_id, radarr,
                   last_radarr_search, today, tag_registry, tag_cache, sync,
                   sweep, obs, inp>>

CounterNext ==
    \/ CallRead
    \/ CallIncrement
    \/ \E count \in 0..MaxCount : CallSave(count)
    \/ NewDay /\ UNCHANGED <<lockVars, gate, fnVars>>

CounterSpec ==
    CounterInit /\ [][CounterNext]_vars

\* ------------------------------------------------ the counters of the runs
RunKinds == {"sync", "sweep"}

\* The locals of a run of process_watchlist or of job_upgrade that count
\* searches, and what an observer has noted of the run: the count it read
\* at its start (start) on the date day, its successful triggers (ok), those
\* of them made on the date okDay (okOnDay), whether no other run was
\* running at any time of it (alone), and the file as its last statement
\* left it on the date endDay.
RunIdle ==
    [pc |-> "idle", daily_search_count |-> 0, run_search_count |-> 0,
     start |-> 0, day |-> 0, ok |-> 0, okDay |-> 0, okOnDay |-> 0,
     alone |-> TRUE, endDay |-> 0, file |-> [date |-> 0, count |-> 0]]

\* The runs that overlap, one with the next, since a run last started with
\* no other running: the count the first of them read (base) on the date
\* day, how many they are (runs) and their successful triggers (ok).
NoGroup ==
    [base |-> 0, day |-> 0, runs |-> 0, ok |-> 0]

NoTrigger ==
    [run |-> "none", ok |-> FALSE,
     before |-> [date |-> 0, count |-> 0],
     daily |-> 0, perRun |-> 0]

CountInit ==
    /\ LockInit
    /\ gate = GateOff
    /\ config = [max_daily_searches |-> [set |-> FALSE, val |-> 0],
                 searches_per_run |-> [set |-> FALSE, val |-> 0],
                 user_tagging |-> FALSE]
    /\ plex_author_id = [i \in Items |-> FALSE]
    /\ radarr = [i \in Items |-> Absent]
    /\ last_radarr_search = [i \in Items |-> "never"]
    /\ daily_search_file \in CounterFiles
    /\ today = 1
    /\ tag_registry = FALSE
    /\ tag_cache = "none"
    /\ sync = SyncIdle
    /\ sweep = SweepIdle
    /\ obs = ObsInit
    /\ inp = <<>>
    /\ out = [run |-> [j \in RunKinds |-> RunIdle], last |-> NoTrigger,
              group |-> NoGroup]

\* "daily_search_count = read_daily_search_count(daily_search_file)" and
\* "run_search_count = 0" at the start of the run of kind j.
RunStart(j) ==
    /\ out.run[j].pc # "loop"
    /\ read_daily_search_count < MaxCount
    /\ LET others == {k \in RunKinds : k # j /\ out.run[k].pc = "loop"}
       IN  out' = [out EXCEPT
              !.run = [k \in RunKinds |->
                 IF k = j
                 THEN [RunIdle EXCEPT
                          !.pc = "loop",
                          !.daily_search_count = read_daily_search_count,
                          !.start = read_daily_search_count,
                          !.day = today,
                          !.alone = (others = {})]
                 ELSE IF k \in others
                 THEN [out.run[k] EXCEPT !.alone = FALSE]
                 ELSE out.run[k]],
              !.last = NoTrigger,
              !.group = IF others = {}
                        THEN [base |-> read_daily_search_count,
                              day |-> today, runs |-> 1, ok |-> 0]
                        ELSE [@ EXCEPT !.runs = Counted(@)]]
    /\ UNCHANGED <<lockVars, gate, engineVars, inp>>

\* "search_result = trigger_search(...)" in the run of kind j and the
\* statements under "if search_result": run_search_count += 1,
\* daily_search_count += 1, increment_daily_search_count(daily_search_file).
RunTrigger(j, search_result) ==
    /\ out.run[j].pc = "loop"
    /\ out.run[j].ok <= MaxLimit
    /\ read_daily_search_count < MaxCount
    /\ out.run[j].daily_search_count < MaxCount
    /\ daily_search_file' =
          IF search_result THEN increment_daily_search_count
          ELSE daily_search_file
    /\ out' = [out EXCEPT
          !.run[j] =
             IF search_result
             THEN [@ EXCEPT
                      !.run_search_count = @ + 1,
                      !.daily_search_count = @ + 1,
                      !.ok = @ + 1,
                      !.okDay = today,
                      !.okOnDay = IF out.run[j].okDay = today
                                  THEN @ + 1 ELSE 1]
             ELSE @,
          !.last = [run |-> j, ok |-> search_result,
                    before |-> daily_search_file,
                    daily |-> out.run[j].daily_search_count,
                    perRun |-> out.run[j].run_search_count],
          !.group.ok = IF search_result THEN @ + 1 ELSE @]
    /\ UNCHANGED <<lockVars, gate, config, plex_author_id, radarr,
                   last_radarr_search, today, tag_registry, tag_cache, sync,
                   sweep, obs, inp>>

\* The last statement of the run of kind j:
\* save_daily_search_count(daily_search_file, daily_search_count).
RunEnd(j) ==
    /\ out.run[j].pc = "loop"
    /\ daily_search_file' =
          save_daily_search_count(out.run[j].daily_search_count)
    /\ out' = [out EXCEPT
          !.run[j].pc = "done",
          !.run[j].endDay = today,
          !.run[j].file =
             save_daily_search_count(out.run[j].daily_search_count),
          !.last = NoTrigger]
    /\ UNCHANGED <<lockVars, gate, config, plex_author_id, radarr,
                   last_radarr_search, today, tag_registry, tag_cache, sync,
                   sweep, obs, inp>>

CountNext ==
    \/ \E j \in RunKinds : RunStart(j)
    \/ \E j \in RunKinds : \E search_result \in BOOLEAN :
          RunTrigger(j, search_result)
    \/ \E j \in RunKinds : RunEnd(j)
    \/ NewDay /\ UNCHANGED <<lockVars, gate, fnVars>>

CountSpec ==
    CountInit /\ [][CountNext]_vars

\* ------------------------------------------------------------ dry-run runs
\* Sync runs and sweeps invoked with dry_run = True, with friend tagging on
\* or off, over a library of records that carry the upgrade tag.
DryInit ==
    /\ LockInit
    /\ gate = GateOff
    /\ FnOff
    /\ EngineInit([max_daily_searches : {[set |-> FALSE, val |-> 0]},
                   searches_per_run : {[set |-> TRUE, val |-> MaxLimit]},
                   user_tagging : BOOLEAN],
                  BOOLEAN,
                  {Absent,
                   [present |-> TRUE, wl |-> FALSE, up |-> TRUE,
                    small |-> TRUE],
                   [present |-> TRUE, wl |-> FALSE, up |-> TRUE,
                    small |-> FALSE]},
                  {"never"})

DryNext ==
    \/ SyncStart(TRUE) /\ UNCHANGED <<lockVars, gate, fnVars>>
    \/ \E tagsOk, tagOk, addOk, updOk, trigOk \in BOOLEAN :
          SyncItem(tagsOk, tagOk, addOk, updOk, trigOk, TRUE)
          /\ UNCHANGED <<lockVars, gate, fnVars>>
    \/ SyncEnd /\ UNCHANGED <<lockVars, gate, fnVars>>
    \/ \E rmOk \in BOOLEAN :
          SweepStart(TRUE, rmOk) /\ UNCHANGED <<lockVars, gate, fnVars>>
    \/ \E trigOk \in BOOLEAN :
          SweepItem(trigOk, TRUE) /\ UNCHANGED <<lockVars, gate, fnVars>>
    \/ SweepEnd /\ UNCHANGED <<lockVars, gate, fnVars>>

DrySpec ==
    DryInit /\ [][DryNext]_vars

\* ------------------------------------------------- runs over an empty cache
\* Sync runs and sweeps of one scheduler, one after the other, over a cache
\* that stays empty: get_plex_metadata returns None for every item and every
\* mark_movie_as_searched fails.  Both limits are set or max_daily_searches
\* is null; the library holds, or not, small records awaiting upgrade.
EmptyCacheInit ==
    /\ LockInit
    /\ gate = GateOff
    /\ FnOff
    /\ EngineInit([max_daily_searches : Limits,
                   searches_per_run : [set : {TRUE}, val : 0..MaxLimit],
                   user_tagging : {FALSE}],
                  {FALSE},
                  {Absent, [present |-> TRUE, wl |-> FALSE, up |-> TRUE,
                            small |-> TRUE]},
                  {"never"})

EmptyCacheNext ==
    \/ /\ sweep.pc = "idle"
       /\ SyncStart(FALSE)
       /\ UNCHANGED <<lockVars, gate, fnVars>>
    \/ \E addOk, updOk, trigOk \in BOOLEAN :
          SyncItem(TRUE, TRUE, addOk, updOk, trigOk, FALSE)
          /\ UNCHANGED <<lockVars, gate, fnVars>>
    \/ SyncEnd /\ UNCHANGED <<lockVars, gate, fnVars>>
    \/ \E rmOk \in BOOLEAN :
          /\ sync.pc = "idle"
          /\ SweepStart(FALSE, rmOk)
          /\ UNCHANGED <<lockVars, gate, fnVars>>
    \/ \E trigOk \in BOOLEAN :
          SweepItem(trigOk, FALSE) /\ UNCHANGED <<lockVars, gate, fnVars>>
    \/ SweepEnd /\ UNCHANGED <<lockVars, gate, fnVars>>
    \/ NewDay /\ UNCHANGED <<lockVars, gate, fnVars>>

EmptyCacheSpec ==
    EmptyCacheInit /\ [][EmptyCacheNext]_vars

\* ------------------------------------------------------------------- claims
\* p's own bookkeeping says it holds job j's lock.
Believes(p, j) ==
    active[p][j]

\* C1: for every job kind, at most one process at a time believes it holds
\* that job kind's lock, under every interleaving of the lock steps.
C1_MutualExclusion ==
    \A j \in Jobs : Cardinality({p \in Procs : Believes(p, j)}) <= 1

\* C2: when two processes acquire one job's free lock concurrently, exactly
\* one call returns true and the other false; and the acquire made after the
\* holder's release returns true.
C2_LockGate ==
    /\ (/\ gate.phase = "race"
        /\ Cardinality(gate.racers) = 2
        /\ \A p \in gate.racers : lockRet[p] # "none")
       => Cardinality({p \in gate.racers : lockRet[p] = "true"}) = 1
    /\ \A p \in gate.again : lockRet[p] # "none" => lockRet[p] = "true"

\* Two calls raced, the holder released, and the next acquire returned true.
C2_Witness ==
    \E p \in gate.again : gate.phase = "final" /\ lockRet[p] = "true"

\* p holds the flock of job j and has it recorded in _active_locks.
HoldsLock(p, j) ==
    /\ active[p][j]
    /\ ofd[p][j] # 0
    /\ holder[j][ofd[p][j]] = p

\* C3: whenever a job body is executing in a process, that process holds the
\* lock of that job kind, also after a termination signal was delivered.
C3_LockHeldWhileRunning ==
    \A p \in Procs : pc[p] = "run" => HoldsLock(p, cur[p])

\* C4: when max_daily_searches is set, the successful search triggers of one
\* date, and the count persisted for that date, never exceed it, over sync
\* and sweep runs that may overlap.
C4_DailyLimitRespected ==
    config.max_daily_searches.set =>
        /\ obs.okToday <= config.max_daily_searches.val
        /\ read_daily_search_count <= config.max_daily_searches.val

\* C5: when searches_per_run is set, one invocation of the sync job or of
\* the sweep admits (issues a search trigger for) at most that many items.
C5_PerRunLimitRespected ==
    config.searches_per_run.set =>
        \A j \in {"sync", "sweep"} :
            obs.admitted[j] <= config.searches_per_run.val

\* The job function of p's last invocation has been left.
Returned(p) ==
    pc[p] \in {"idle", "exited"}

\* C6: once a job function whose acquire succeeded has been left, its
\* process holds no lock, and a body that raised made the function return
\* False (a body that completed, True): no exception reached the caller.
C6_ReleaseUnconditional ==
    \A p \in Procs :
        (Returned(p) /\ lockRet[p] = "true") =>
            /\ \A j \in Jobs :
                  /\ ~active[p][j]
                  /\ ofd[p][j] = 0
                  /\ \A i \in Inodes : holder[j][i] # p
            /\ outcome[p][cur[p]] = "failed" => jobRet[p] = "false"
            /\ outcome[p][cur[p]] = "completed" => jobRet[p] = "true"

\* The last run of job j in p ended in FAILED and the job function was left.
FailedRun(p, j) ==
    outcome[p][j] = "failed" /\ (cur[p] = j => Returned(p))

\* p has started job j and is about to try its lock.
Restarted(p, j) ==
    pc[p] = "flock" /\ cur[p] = j

\* C7: after a run ends in FAILED the scheduler starts the same job again
\* unless shutdown is requested, and the failed run left nothing in the way
\* of its lock: the flock is free whenever no other process has the lock
\* file open.
C7_FailedRunRestarts ==
    /\ \A j \in Jobs :
          FailedRun(Sched, j) ~> (shutdown[Sched] \/ Restarted(Sched, j))
    /\ [](\A p \in Procs :
            (pc[p] = "flock" /\ \A q \in Procs \ {p} : ofd[q][cur[p]] = 0)
            => FlockFree(cur[p], ofd[p][cur[p]]))

\* C8: a job invocation whose lock acquisition failed has returned False
\* without a single body step: no service call, no counter or cache write.
C8_SkippedRunDoesNothing ==
    \A p \in Procs :
        lockRet[p] = "false" =>
            /\ ~worked[p]
            /\ pc[p] = "idle"
            /\ jobRet[p] = "false"

\* A lock acquisition failed while another process was running the job.
C8_Witness ==
    \E p, q \in Procs :
        /\ lockRet[p] = "false" /\ pc[p] = "idle"
        /\ cur[q] = cur[p] /\ pc[q] = "run" /\ worked[q]

\* C9: over any sequence of sync runs the sync job triggers a search for
\* one item at most once.
C9_SyncSearchesOnce ==
    \A i \in Items : obs.syncOk[i] <= 1

\* C10: a sync pass that skips its item because the resolved record carries
\* the watchlist tag has sent no create, update, search or tag-creation
\* request for it.
C10_TaggedRecordSkipped ==
    obs.last.skipped => obs.last.calls = {}

\* C11: a sync run or a sweep invoked with dry_run = True sends no create,
\* update, search or tag-creation request to the library.
C11_DryRunSuppressesWrites ==
    obs.dry = {}

\* C12: the counter is valid only for the date it was written.  A read
\* returns the persisted count when the persisted date is today's and 0 when
\* the date differs or the file is missing or unreadable; an increment
\* leaves {today, that value + 1} in the file.
C12_CounterValidForItsDate ==
    /\ out.op = "read" =>
          out.ret = IF out.file.date = out.today THEN out.file.count ELSE 0
    /\ out.op = "increment" =>
          /\ out.ret = 1 + IF out.file.date = out.today
                           THEN out.file.count ELSE 0
          /\ daily_search_file = [date |-> out.today, count |-> out.ret]

\* An increment found a count written on another date and wrote 1.
C12_Witness ==
    /\ out.op = "increment"
    /\ out.file.date > 0
    /\ out.file.date # out.today
    /\ out.file.count > 0
    /\ daily_search_file = [date |-> out.today, count |-> 1]

\* C14: the sweep's 24-hour cooldown.  A record whose cached last search is
\* less than 24 hours old is not a candidate, one whose last search is 24
\* hours old or more, or absent, is; and two searches triggered by sweeps
\* for one record are at least 24 hours apart.
C14_SweepCooldown ==
    /\ out.check.made =>
          /\ (out.check.age >= 0 /\ out.check.age < CooldownHours)
                => ~out.check.candidate
          /\ (out.check.age = -1 \/ out.check.age >= CooldownHours)
                => out.check.candidate
    /\ out.pending => SweepCandidate(SweepLookup(inp.movie, inp.db), inp.now)
    /\ out.count >= 2 => out.gap >= CooldownHours

\* A sweep searched the record exactly 24 hours after the sweep before.
C14_Witness ==
    /\ out.count >= 2
    /\ out.gap = CooldownHours
    /\ out.at = inp.now

\* The row should_trigger_search looks up: by the first identifier the movie
\* carries, in the order ratingKey, imdbId, tmdbId.
C15_Record ==
    IF inp.movie.ratingKey THEN get_plex_metadata(inp.db, "rating_key")
    ELSE IF inp.movie.imdbId THEN get_plex_metadata(inp.db, "imdb_id")
    ELSE IF inp.movie.tmdbId THEN get_plex_metadata(inp.db, "tmdb_id")
    ELSE NoRow

C16_Cand(id) ==
    inp.search_candidates[id]

\* x sorts before y: an older last search (never searched first), or the
\* same and a smaller size.
C16_Before(x, y) ==
    \/ x.last_search_time < y.last_search_time
    \/ /\ x.last_search_time = y.last_search_time
       /\ x.size_bytes < y.size_bytes

\* C16: the sweep attempts a prefix of its prioritized list.  The list holds
\* every candidate once, ascending by last-search time (datetime.min for
\* the never searched), ties ascending by size; the searches attempted are
\* its first k items, in order, k <= searches_per_run; and no candidate is
\* attempted while one that sorts before it is left unattempted.
C16_PrioritizedPrefix ==
    LET sc == out.search_candidates
        att == out.attempted
        ids == {att[n] : n \in DOMAIN att}
    IN  /\ sc # <<>> =>
              /\ Len(sc) = Len(inp.search_candidates)
              /\ \A c \in DOMAIN inp.search_candidates :
                    \E n \in DOMAIN sc : sc[n] = inp.search_candidates[c]
        /\ \A a, b \in DOMAIN sc : a < b => ~C16_Before(sc[b], sc[a])
        /\ \A n \in DOMAIN att : att[n] = sc[n].id
        /\ Len(att) <= Len(sc)
        /\ inp.per_run_search_limit.set =>
              Len(att) <= inp.per_run_search_limit.val
        /\ \A x \in ids, y \in DOMAIN inp.search_candidates :
              y \notin ids => ~C16_Before(C16_Cand(y), C16_Cand(x))

\* A sweep has ended after two attempts, of a never-searched candidate and
\* then of the smaller of two candidates of one timestamp, leaving the
\* larger one, which stood first in the library's order.
C16_Witness ==
    /\ out.pc = "done"
    /\ Len(out.attempted) = 2
    /\ Len(inp.search_candidates) = 3
    /\ C16_Cand(out.attempted[1]).last_search_time = datetime_min
    /\ \E y \in DOMAIN inp.search_candidates :
          /\ y < out.attempted[2]
          /\ y # out.attempted[1]
          /\ C16_Cand(y).last_search_time
                = C16_Cand(out.attempted[2]).last_search_time
          /\ C16_Cand(y).size_bytes > C16_Cand(out.attempted[2]).size_bytes

\* C20: needs_update(X, X) is false for every well-formed record X, and
\* needs_update(X, Y) is true for well-formed X and Y whenever Y differs from
\* X in one of monitored, qualityProfileId, rootFolderPath, path,
\* minimumAvailability, or in its set of tags.
C20_NeedsUpdate ==
    /\ (out.same # "none" /\ WellFormed(inp.X)) => out.same = "False"
    /\ (/\ out.changed # "none"
        /\ WellFormed(inp.X)
        /\ WellFormed(ChangedDict)
        /\ \/ \E key \in keys_to_check : ChangedDict[key] # inp.X[key]
           \/ ChangedDict.tags # inp.X.tags) => out.changed = "True"

\* Two well-formed records that differ in their tags only were compared,
\* and the record with itself.
C20_Witness ==
    /\ out.same = "False"
    /\ out.changed = "True"
    /\ WellFormed(inp.X)
    /\ \A key \in DOMAIN FieldValues : ChangedDict[key] = inp.X[key]
    /\ ChangedDict.tags # inp.X.tags

\* The items of the merged list.
Merged ==
    {out.merged_list[n] : n \in DOMAIN out.merged_list}

\* C17: the merged list holds no two items with the same trimmed and
\* lower-cased imdbId.
C17_MergeUnique ==
    out.done =>
        \A a, b \in DOMAIN out.merged_list :
            (/\ a # b
             /\ Normalized(out.merged_list[a].imdbId) # "")
            => Normalized(out.merged_list[a].imdbId)
                 # Normalized(out.merged_list[b].imdbId)

\* Both sources listed one movie, in different spellings of its id, and the
\* merged list holds it once.
C17_Witness ==
    /\ out.done
    /\ \E p \in DOMAIN inp.personal_list, f \in DOMAIN inp.friends_list :
          /\ inp.personal_list[p].imdbId = "tt1"
          /\ inp.friends_list[f].imdbId = "TT1 "
    /\ Cardinality({n \in DOMAIN out.merged_list :
                       Normalized(out.merged_list[n].imdbId) = "tt1"}) = 1

\* C18 as stated: every item of the personal list that has a key (a
\* non-empty imdbId or a ratingKey) is an element of the merged list.
C18_PrimarySurvives ==
    out.done =>
        \A n \in DOMAIN inp.personal_list :
            Truthy(PersonalKey(inp.personal_list[n]))
            => inp.personal_list[n] \in Merged

\* C18, amended: every item of the personal list that has a key is an
\* element of the merged list unless a later item of the personal list has
\* the same key; the last personal item of each key is in the merged list.
C18_LastPrimarySurvives ==
    out.done =>
        \A n \in DOMAIN inp.personal_list :
            (/\ Truthy(PersonalKey(inp.personal_list[n]))
             /\ \A m \in DOMAIN inp.personal_list :
                   m > n => PersonalKey(inp.personal_list[m])
                              # PersonalKey(inp.personal_list[n]))
            => inp.personal_list[n] \in Merged

\* Two personal items and a friend's item had one key; the later personal
\* item is in the merged list.
C18_Witness ==
    /\ out.done
    /\ \E n, m \in DOMAIN inp.personal_list :
          /\ n < m
          /\ PersonalKey(inp.personal_list[n])
                = PersonalKey(inp.personal_list[m])
          /\ inp.personal_list[m] \in Merged
          /\ \E f \in DOMAIN inp.friends_list :
                Normalized(inp.friends_list[f].imdbId)
                  = PersonalKey(inp.personal_list[m])

\* C19: an item of the friends list is in the merged list if and only if it
\* has a key (a non-empty imdbId) that no personal item has and no earlier
\* friends item has; under a key that both sources have, the merged list
\* holds a personal item.
C19_SecondaryOnlyUnderNewKeys ==
    out.done =>
        /\ \A n \in DOMAIN inp.friends_list :
              LET item == inp.friends_list[n]
                  key == Normalized(item.imdbId)
              IN  item \in Merged <=>
                    /\ key # ""
                    /\ \A p \in DOMAIN inp.personal_list :
                          PersonalKey(inp.personal_list[p]) # key
                    /\ \A m \in DOMAIN inp.friends_list :
                          m < n =>
                            Normalized(inp.friends_list[m].imdbId) # key
        /\ \A p \in DOMAIN inp.personal_list :
              \E item \in Merged :
                  /\ item.source = "personal"
                  /\ PersonalKey(item) = PersonalKey(inp.personal_list[p])

\* Of two friends items one collided with a personal item and one was new:
\* only the new one was merged in.
C19_Witness ==
    /\ out.done
    /\ \E b \in DOMAIN inp.friends_list : inp.friends_list[b] \in Merged
    /\ \E c \in DOMAIN inp.friends_list, p \in DOMAIN inp.personal_list :
          /\ Normalized(inp.friends_list[c].imdbId)
                = PersonalKey(inp.personal_list[p])
          /\ inp.friends_list[c] \notin Merged

\* C13: a null limit is no limit.  With searches_per_run null the sweep runs
\* to its end; with both limits null every sync pass whose item is due a
\* search sends the trigger; with max_daily_searches null the sweep's loop
\* stops only at the end of its candidates or at the per-run limit.
C13_NullLimitIsUnlimited ==
    /\ ~config.searches_per_run.set => obs.raised = "none"
    /\ (/\ ~config.searches_per_run.set
        /\ ~config.max_daily_searches.set
        /\ obs.last.eligible) => "search" \in obs.last.calls
    /\ (/\ ~config.max_daily_searches.set
        /\ config.searches_per_run.set
        /\ sweep.pc = "items"
        /\ ~SweepGoesOn) =>
            \/ sweep.i = Len(sweep.search_candidates)
            \/ sweep.i = config.searches_per_run.val

\* The item of the n-th pass of the sync loop.
PassItem(n) ==
    inp.combined_list[n]

\* C21: a library record without an imdbId is resolved by the scan of the
\* tmdbIds: an item with no imdbId whose tmdbId equals, as text, the tmdbId
\* of such a record resolves to a record, not to none.
C21_UnindexedRecordResolved ==
    \A n \in DOMAIN out.results :
        (/\ Normalized(PassItem(n).imdbId) = ""
         /\ \E k \in DOMAIN inp.library :
               /\ inp.library[k].imdbId = ""
               /\ inp.library[k].tmdbId = TmdbText(PassItem(n).tmdbId))
        => out.results[n].radarr_movie # 0

C23_CategoryTagKept ==
    /\ "watchlist" \in out.payload
    /\ out.removed = {}

\* C24: in a run that is no dry run, an item with an imdbId that is not in
\* the library index resolves to none and is created: a create call is sent
\* whose tags hold the watchlist tag and the upgrade tag, and with
\* searches_per_run = 0 no search is triggered for it.
C24_UnindexedItemCreated ==
    \A n \in DOMAIN out.results :
        (/\ ~inp.dry_run
         /\ Normalized(PassItem(n).imdbId) # ""
         /\ ~InMerged(out.radarr_index, Normalized(PassItem(n).imdbId)))
        => /\ out.results[n].radarr_movie = 0
           /\ "create" \in out.results[n].calls
           /\ {"watchlist", "upgrade"} \subseteq out.results[n].tags
           /\ inp.per_run_search_limit = 0
                 => "search" \notin out.results[n].calls

\* C28: an item that resolves to no record and has no tmdbId, the identifier
\* a create needs, is passed over without a fault: no create and no search
\* call is sent for it, the search count stays as it was, and the run ends
\* only after every item of the merged list has had its pass.
C28_UncreatableItemSkipped ==
    /\ \A n \in DOMAIN out.results :
          (/\ out.results[n].radarr_movie = 0
           /\ TmdbText(PassItem(n).tmdbId) = "")
          => /\ out.results[n].calls = {}
             /\ out.results[n].run_search_count =
                   (IF n = 1 THEN 0 ELSE out.results[n - 1].run_search_count)
    /\ Len(out.results) <= Len(inp.combined_list)
    /\ out.pc = "done" => Len(out.results) = Len(inp.combined_list)

\* The first item has an imdbId only and is in no index; the item after it
\* has been created.
C28_Witness ==
    /\ Len(out.results) = 2
    /\ Normalized(PassItem(1).imdbId) # ""
    /\ TmdbText(PassItem(1).tmdbId) = ""
    /\ out.results[1].radarr_movie = 0
    /\ out.results[1].calls = {}
    /\ "create" \in out.results[2].calls
    /\ out.pc = "done"

\* C25: a call of with_job_lock that fails on a lock another process has
\* held for longer than LOCK_TIMEOUT_SECONDS logs the lock as stale, returns
\* False, and leaves the lock with its holder.
C25_StaleLockReported ==
    (out.attempt.made /\ out.attempt.held_for > inp.LOCK_TIMEOUT_SECONDS)
    => /\ out.attempt.logged = "stale"
       /\ out.attempt.ret = "false"
       /\ out.held

\* C26: a holder killed between acquire and release does not block the job:
\* its lock file may stay on disk, but no flock is left to a dead process,
\* so a with_job_lock called while every other process is dead or outside
\* its job functions gets the lock.
C26_CrashDoesNotBlock ==
    /\ \A j \in Jobs, i \in Inodes :
          holder[j][i] # 0 => pc[holder[j][i]] # "crashed"
    /\ \A q \in Procs :
          (/\ pc[q] = "flock"
           /\ \A r \in Procs \ {q} : pc[r] \in {"crashed", "idle"})
          => FlockFree(cur[q], ofd[q][cur[q]])

\* A process was killed while it held the lock of a job; started again, it
\* has opened the lock file left on disk and holds the lock of that job.
C26_Witness ==
    \E p \in Procs, j \in Jobs :
        /\ outcome[p][j] = "crashed"
        /\ cur[p] = j
        /\ pc[p] = "run"
        /\ lockRet[p] = "true"
        /\ active[p][j]
        /\ holder[j][ofd[p][j]] = p

\* C27: a last_radarr_search that cannot be parsed makes the sweep pass the
\* record over: the record is no search candidate, and no search is
\* triggered for it.
C27_UnparsableSkipped ==
    (out.check.made /\ out.check.age = -2) => ~out.check.candidate

\* C30: after any sequence of save_plex_metadata, mark_movie_as_searched and
\* mark_movie_as_processed calls, every identifier a row was stored with
\* still finds a row when get_plex_metadata is called with it alone.
C30_RetrievableByAnyId ==
    \A id \in out.stored : Found(out.rows, id)

\* C29: over a cache that stays empty every run reaches its end, every item
\* the sync run finds small and untagged in the library is treated as never
\* searched (a search is due for it), and with the limits set no run admits
\* more than searches_per_run items nor do the successful searches of one
\* date, or the count persisted for it, exceed max_daily_searches.
C29_EmptyCacheTolerated ==
    /\ obs.raised = "none"
    /\ \A i \in Items : last_radarr_search[i] = "never"
    /\ (sync.pc = "items" /\ obs.last.item # 0) =>
          LET radarr_movie == sync.radarr_index[obs.last.item]
          IN  (/\ radarr_movie.present
               /\ ~radarr_movie.wl
               /\ radarr_movie.small) => obs.last.eligible
    /\ \A j \in {"sync", "sweep"} :
          obs.admitted[j] <= config.searches_per_run.val
    /\ config.max_daily_searches.set =>
          /\ obs.okToday <= config.max_daily_searches.val
          /\ read_daily_search_count <= config.max_daily_searches.val

\* C31: a successful trigger adds exactly one to run_search_count and to
\* daily_search_count and leaves the count valid before it, plus one, in the
\* file under the date of the trigger; a failed trigger changes neither
\* counter nor the file.  A run that ends on the date it started on, no
\* other run running during it, leaves in the file the count it read at its
\* start plus the number of its successful triggers.
C31_CountersFollowTriggers ==
    /\ out.last.run # "none" =>
          LET r == out.run[out.last.run]
              valid == IF out.last.before.date = r.okDay
                       THEN out.last.before.count ELSE 0
          IN  IF out.last.ok
              THEN /\ r.run_search_count = out.last.perRun + 1
                   /\ r.daily_search_count = out.last.daily + 1
                   /\ daily_search_file =
                         [date |-> r.okDay, count |-> valid + 1]
              ELSE /\ r.run_search_count = out.last.perRun
                   /\ r.daily_search_count = out.last.daily
                   /\ daily_search_file = out.last.before
    /\ \A j \in RunKinds :
          (/\ out.run[j].pc = "done"
           /\ out.run[j].alone
           /\ out.run[j].day = out.run[j].endDay)
             => out.run[j].file = [date |-> out.run[j].endDay,
                                   count |-> out.run[j].start
                                                + out.run[j].ok]

\* A sweep that read a count above 0, ran alone within one date and
\* triggered two searches has ended.
C31_Witness ==
    /\ out.run["sweep"].pc = "done"
    /\ out.run["sweep"].alone
    /\ out.run["sweep"].day = out.run["sweep"].endDay
    /\ out.run["sweep"].start > 0
    /\ out.run["sweep"].ok = 2
    /\ daily_search_file.count = out.run["sweep"].start + 2

\* C32: when a sync run and a sweep run overlap on one date, the count in
\* the file after both have ended is the count before both started plus the
\* successful triggers of both.
C32_NoIncrementLost ==
    (/\ \A j \in RunKinds : out.run[j].pc = "done"
     /\ out.group.runs = 2
     /\ daily_search_file.date = out.group.day)
       => daily_search_file.count = out.group.base + out.group.ok

\* C33: a run that ends on a later date than it started on leaves under the
\* new date the number of its searches triggered on the new date.
C33_NewDateCountsOwnSearches ==
    \A j \in RunKinds :
        (/\ out.run[j].pc = "done"
         /\ out.run[j].alone
         /\ out.run[j].day # out.run[j].endDay)
           => out.run[j].file =
                 [date |-> out.run[j].endDay,
                  count |-> IF out.run[j].okDay = out.run[j].endDay
                            THEN out.run[j].okOnDay ELSE 0]

\* C34: after a call of with_job_lock that fails on a lock another process
\* holds, the lock file holds the holder's acquisition timestamp and has the
\* modification time the holder's write gave it.
C34_FailedAcquireChangesNothing ==
    out.attempt.made =>
        /\ out.text = out.acquired_at
        /\ out.mtime = out.acquired_at

\* C35: a call of release_job_lock by a process whose _active_locks does not
\* hold the job's name neither unlocks nor deletes a lock file that another
\* process holds the flock of.
C35_ForeignReleaseHarmless ==
    [][\A p \in Procs :
          (pc[p] = "rel_remove" /\ pc'[p] # "rel_remove" /\ ~out[p])
             => LET j == cur[p]
                IN  /\ \A i \in Inodes :
                          holder[j][i] \notin {0, p}
                             => holder'[j][i] = holder[j][i]
                    /\ (path[j] # 0 /\ holder[j][path[j]] \notin {0, p})
                          => path'[j] = path[j]]_vars

\* C36: once a termination signal has set _shutdown_requested the scheduler
\* starts no job, and the scheduler loop is eventually left.
C36_ShutdownStopsScheduling ==
    /\ [](out.late = {})
    /\ (out.shutdown_requested ~> out.pc \in {"stopped", "exited"})

\* The positions of the candidates of the sweep.
C37_Candidates ==
    {out.search_candidates[n].id : n \in DOMAIN out.search_candidates}

C38_NoCreateForHeldRecord ==
    \A n \in DOMAIN out.results :
        (/\ Normalized(PassItem(n).imdbId) # ""
         /\ \E k \in DOMAIN inp.library :
               Normalized(inp.library[k].imdbId)
                  = Normalized(PassItem(n).imdbId))
        => "create" \notin out.results[n].calls

\* ------------------------------------------------ get_or_create_tag, as called
\* Calls of get_or_create_tag within one process, against a registry whose
\* GET and POST may each fail.
MaxCalls == 4

TagLabels ==
    {"friend-a", "Friend-A", "friend-b"}

\* tag_name.lower()
lower(tag_name) ==
    IF tag_name = "Friend-A" THEN "friend-a" ELSE tag_name

LowerLabels ==
    {lower(l) : l \in TagLabels}

\* The tags the registry can hold when the process starts.
Registries ==
    {{}, {[id |-> 1, label |-> "Friend-A"]},
     {[id |-> 1, label |-> "friend-b"]}}

\* "_tag_cache = None"
CacheNone ==
    [set |-> FALSE, ids |-> [l \in LowerLabels |-> 0]]

TagIds(registry) ==
    {t.id : t \in registry}

SetMax(S) ==
    IF S = {} THEN 0 ELSE CHOOSE m \in S : \A x \in S : x <= m

\* get_all_tags: "{tag["label"].lower(): tag["id"] for tag in result}" when
\* the GET answers (a later tag of the listing replaces an earlier one under
\* the same key), the cache left as it is when the GET fails.
get_all_tags(tagsOk, registry, cache) ==
    IF tagsOk
    THEN [set |-> TRUE,
          ids |-> [l \in LowerLabels |->
                     SetMax({t.id : t \in {u \in registry :
                                              lower(u.label) = l}})]]
    ELSE cache

\* The tag a POST of the label answers with: a registry that keeps labels
\* unique answers with the tag it holds, any other with a new tag.
Posted(unique, registry, tag_name) ==
    LET held == {t \in registry : t.label = tag_name}
    IN  IF unique /\ held # {}
        THEN CHOOSE t \in held : TRUE
        ELSE [id |-> SetMax(TagIds(registry)) + 1, label |-> tag_name]

\* create_tag: the cache is updated "if _tag_cache is not None".
create_tag(result, tag_name, cache) ==
    IF cache.set
    THEN [cache EXCEPT !.ids[lower(tag_name)] = result.id]
    ELSE cache

TagInit ==
    /\ LockInit
    /\ gate = GateOff
    /\ EngineOff
    /\ inp \in [unique : BOOLEAN, registry : Registries]
    /\ out = [registry |-> inp.registry, cache |-> CacheNone, calls |-> 0,
              posts |-> [l \in LowerLabels |-> 0],
              returned |-> [l \in LowerLabels |-> {}],
              last |-> [tag_name |-> "", id |-> 0, posted |-> FALSE]]

\* One call get_or_create_tag(tag_name); tagsOk and tagOk say whether the
\* GET and the POST it may send are answered.  The id 0 stands for None.
Call_get_or_create_tag(tag_name, tagsOk, tagOk) ==
    /\ out.calls < MaxCalls
    /\ LET low == lower(tag_name)
           cache1 == IF out.cache.set
                     THEN out.cache
                     ELSE get_all_tags(tagsOk, out.registry, out.cache)
           hit == cache1.set /\ cache1.ids[low] # 0
           created == ~hit /\ tagOk
           result == Posted(inp.unique, out.registry, tag_name)
           id == IF hit THEN cache1.ids[low]
                 ELSE IF created THEN result.id ELSE 0
       IN  out' = [registry |-> IF created
                                THEN out.registry \cup {result}
                                ELSE out.registry,
                   cache |-> IF created
                             THEN create_tag(result, tag_name, cache1)
                             ELSE cache1,
                   calls |-> out.calls + 1,
                   posts |-> IF hit THEN out.posts
                             ELSE [out.posts EXCEPT ![low] = @ + 1],
                   returned |-> IF id = 0 THEN out.returned
                                ELSE [out.returned EXCEPT
                                         ![low] = @ \cup {id}],
                   last |-> [tag_name |-> tag_name, id |-> id,
                             posted |-> ~hit]]
    /\ UNCHANGED <<lockVars, gate, engineVars, inp>>

TagNext ==
    \E tag_name \in TagLabels : \E tagsOk, tagOk \in BOOLEAN :
       Call_get_or_create_tag(tag_name, tagsOk, tagOk)

TagSpec ==
    TagInit /\ [][TagNext]_vars

\* C39: get_or_create_tag is idempotent per label: over the calls of one
\* process, the successful calls with one label (compared without regard to
\* case) return one tag id, and the create-tag call is issued to the registry
\* at most once for that label.
C39_IdempotentPerLabel ==
    \A l \in LowerLabels :
        /\ Cardinality(out.returned[l]) <= 1
        /\ out.posts[l] <= 1

====
